---- MODULE Spec2Model ----
(***************************************************************************)
(* A model of SoLoad, a standalone dynamic loader for AArch64 ELF shared   *)
(* objects: the SoLoader handle, its Linker, the process-wide TlsManager   *)
(* and BacktraceManager, and the address space they act on.                *)
(*                                                                         *)
(* load / unload / abandon run on one controlling thread and never         *)
(* suspend, so each is one action; the operators below thread a record w   *)
(* (the "world": linker, process, TLS manager, backtrace manager, threads, *)
(* history) through the calls the handler makes, in the order of the code. *)
(***************************************************************************)
EXTENDS Integers, Sequences, FiniteSets, TLC

\* ------------------------------------------------------------------ bounds
\* load() calls explored on the handle
MaxLoads == 2
\* values a read through a dangling ElfImage* may yield for tls_mod_id_
MaxDangling == 1
\* images searched by findSymbol in SpecSym (main image + dependencies)
MaxSymImages == 3
\* worker threads of the TLS thread test
NumThreads == 2
\* threads registering TLS segments concurrently in SpecReg
NumRegThreads == 2

\* ------------------------------------------------------- program constants
R_AARCH64_NONE == 0
R_AARCH64_ABS64 == 257
R_AARCH64_COPY == 1024
R_AARCH64_GLOB_DAT == 1025
R_AARCH64_JUMP_SLOT == 1026
R_AARCH64_RELATIVE == 1027
R_AARCH64_TLS_DTPMOD == 1028
R_AARCH64_TLS_DTPREL == 1029
R_AARCH64_TLS_TPREL == 1030
R_AARCH64_TLSDESC == 1031
R_AARCH64_IRELATIVE == 1032

STB_LOCAL == 0
STB_GLOBAL == 1
STB_WEAK == 2
SHN_UNDEF == 0
STT_OBJECT == 1
STT_FUNC == 2
STT_TLS == 6

MAX_TLS_MODULES == 128
MAX_CUSTOM_LIBS == 64

\* sysconf(_SC_PAGESIZE)
PageSize == 4096

\* ------------------------------------------------------------------- state
VARIABLES
    fs,     \* the file system: full path -> ELF file (what open/read/parse see)
    so,     \* the SoLoader handle: lib_path_, image_, and whether it is alive
    lk,     \* its Linker: main_image_, deps_, main_map_size_, is_linked_,
            \*   symbol_cache_, tls_indices_
    proc,   \* the process: mapped regions, memory words, heap objects, and the
            \*   host's resident libraries and the symbols they export
    tlsm,   \* the TlsManager singleton
    bt,     \* the BacktraceManager singleton and the unwinder's frame list
    thr,    \* threads: pthread-specific TLS block, and the position of each
            \*   worker
    hist    \* history: constructor/destructor calls, last operation and result

vars == <<fs, so, lk, proc, tlsm, bt, thr, hist>>

\* ----------------------------------------------------------------- helpers
Range(s) == {s[i] : i \in DOMAIN s}

Min(S) == CHOOSE x \in S : \A y \in S : x <= y

Max(S) == CHOOSE x \in S : \A y \in S : y <= x

\* the tuple <<directory, file name>> stands for the string directory + name;
\* a DT_NEEDED entry without directory is <<"", name>>
IsAbsolute(name) == name[1] # ""

\* wrap-around arithmetic of ElfAddr (uint64_t); the addresses of the model
\* are AddrSpace wide, so that sums and differences wrap as unsigned ones do
AddrSpace == 2 ^ 30

Wrap64(x) == x % AddrSpace

\* address-space layout: where mmap, new TlsIndex and posix_memalign place
\* the k-th object they hand out
RegionBase(k) == k * 65536
TlsIndexAddr(k) == 16777216 + k * 16
BlockBase(k) == 33554432 + k * PageSize

\* addresses the host's dlsym(RTLD_DEFAULT, name) knows in a process that
\* has the C library and libdl resident
HostSymbols ==
    ("hostfn" :> 900001) @@ ("dl_iterate_phdr" :> 900002) @@ ("dladdr" :> 900003)

\* addresses of the loader's own functions that relocation stores
CustomDlIteratePhdrAddr == 800001
CustomDladdrAddr == 800002
DynamicTlsResolverAddr == 800003


\* ------------------------------------------------------------ file system
\* One .dynsym / .symtab entry (ElfSym); index 0 of a table is the null symbol.
Sym(name, value, shndx, bind, type) ==
    [st_name |-> name, st_value |-> value, st_size |-> 8, st_shndx |-> shndx,
     st_bind |-> bind, st_type |-> type]

NullSym == Sym("", 0, SHN_UNDEF, STB_LOCAL, 0)

Undef(name) == Sym(name, 0, SHN_UNDEF, STB_GLOBAL, 0)

\* One Elf64_Rela entry: r_info split into symbol index and type
Rela(type, sym, offset, addend) ==
    [r_type |-> type, r_sym |-> sym, r_offset |-> offset, r_addend |-> addend]

NoTls == [present |-> FALSE, p_align |-> 0, p_memsz |-> 0, p_filesz |-> 0, p_vaddr |-> 0]

Tls(align, memsz, filesz) ==
    [present |-> TRUE, p_align |-> align, p_memsz |-> memsz, p_filesz |-> filesz,
     p_vaddr |-> 6144]

\* the directories findLibraryPath probes, in order
SearchPaths ==
    << "/apex/com.android.runtime/lib64/bionic/", "/apex/com.android.runtime/lib64/",
       "/apex/com.android.art/lib64/", "/system/lib64/", "/system/lib64/vndk/",
       "/system/lib64/vndk-sp/", "/vendor/lib64/", "/vendor/lib64/vndk/",
       "/vendor/lib64/vndk-sp/", "/odm/lib64/", "/product/lib64/", "/system_ext/lib64/" >>

PathApp == <<"/data/local/tmp/", "app.so">>
PathPlug == <<"/data/local/tmp/", "plug.so">>
PathBad == <<"/data/local/tmp/", "bad.so">>
PathMissing == <<"/data/local/tmp/", "missing.so">>
PathLibA == <<"/system/lib64/", "liba.so">>
PathLibB == <<"/vendor/lib64/", "libb.so">>
PathLibC == <<"/apex/com.android.runtime/lib64/bionic/", "libc.so">>

\* app.so: needs liba.so, libc.so (resident in the host), a library that
\* exists nowhere, and libb.so; has TLS, constructors and a destructor
FileApp ==
    [valid |-> TRUE, load_size |-> 2 * PageSize, min_vaddr |-> 0, bias |-> 0,
     needed |-> << <<"", "liba.so">>, <<"", "libc.so">>, <<"", "libgone.so">>,
                   <<"", "libb.so">> >>,
     tls |-> Tls(8, 16, 8), has_hash |-> TRUE,
     dynsym |-> << NullSym, Sym("foo", 256, 1, STB_GLOBAL, STT_FUNC),
                   Sym("tls_var", 8, 1, STB_GLOBAL, STT_TLS), Undef("bar"),
                   Undef("nosuch"), Undef("hostfn"), Undef("wk") >>,
     symtab |-> << NullSym, Sym("foo", 256, 1, STB_GLOBAL, STT_FUNC),
                   Sym("helper", 320, 1, STB_LOCAL, STT_FUNC) >>,
     rela |-> << Rela(R_AARCH64_GLOB_DAT, 3, 4096, 0),
                 Rela(R_AARCH64_JUMP_SLOT, 4, 4104, 0),
                 Rela(R_AARCH64_ABS64, 5, 4112, 4),
                 Rela(R_AARCH64_RELATIVE, 0, 4120, 512),
                 Rela(R_AARCH64_TLSDESC, 2, 4128, 0),
                 Rela(R_AARCH64_TLS_DTPMOD, 2, 4144, 0),
                 Rela(R_AARCH64_GLOB_DAT, 6, 4152, 0) >>,
     relr |-> << 4160, 11 >>,
     words |-> (4096 :> 0) @@ (4104 :> 640) @@ (4112 :> 0) @@ (4120 :> 512) @@
               (4128 :> 0) @@ (4136 :> 0) @@ (4144 :> 0) @@ (4152 :> 0) @@
               (4160 :> 768) @@ (4168 :> 776) @@ (4176 :> 7) @@ (4184 :> 784),
     has_init |-> TRUE, init_array_count |-> 1,
     has_fini |-> FALSE, fini_array_count |-> 1, eh_frame |-> 1024]

\* liba.so: needs libb.so; defines bar, a weak wk and the TLS variable ta
FileLibA ==
    [valid |-> TRUE, load_size |-> 2 * PageSize, min_vaddr |-> 0, bias |-> 0,
     needed |-> << <<"", "libb.so">> >>,
     tls |-> Tls(16, 4, 4), has_hash |-> TRUE,
     dynsym |-> << NullSym, Sym("bar", 128, 1, STB_GLOBAL, STT_FUNC),
                   Sym("wk", 160, 1, STB_WEAK, STT_FUNC),
                   Sym("ta", 0, 1, STB_GLOBAL, STT_TLS), Undef("baz") >>,
     symtab |-> << NullSym >>,
     rela |-> << Rela(R_AARCH64_JUMP_SLOT, 4, 4096, 0),
                 Rela(R_AARCH64_TLS_TPREL, 3, 4104, 0) >>,
     relr |-> << 4112 >>,
     words |-> (4096 :> 704) @@ (4104 :> 0) @@ (4112 :> 192),
     has_init |-> FALSE, init_array_count |-> 1,
     has_fini |-> TRUE, fini_array_count |-> 2, eh_frame |-> 1024]

\* libb.so: a leaf; defines baz and a global wk, refers to foo
FileLibB ==
    [valid |-> TRUE, load_size |-> 2 * PageSize, min_vaddr |-> 0, bias |-> 0,
     needed |-> << >>,
     tls |-> NoTls, has_hash |-> TRUE,
     dynsym |-> << NullSym, Sym("baz", 64, 1, STB_GLOBAL, STT_FUNC),
                   Sym("wk", 96, 1, STB_GLOBAL, STT_FUNC), Undef("foo") >>,
     symtab |-> << NullSym >>,
     rela |-> << Rela(R_AARCH64_GLOB_DAT, 3, 4096, 0) >>,
     relr |-> << >>,
     words |-> (4096 :> 0),
     has_init |-> FALSE, init_array_count |-> 0,
     has_fini |-> TRUE, fini_array_count |-> 0, eh_frame |-> 0]

\* plug.so: needs libb.so by absolute path; refers to foo and nosuch, which
\* neither it nor libb.so nor the host defines
FilePlug ==
    [valid |-> TRUE, load_size |-> PageSize, min_vaddr |-> 0, bias |-> 0,
     needed |-> << PathLibB >>,
     tls |-> NoTls, has_hash |-> TRUE,
     dynsym |-> << NullSym, Sym("plug_fn", 64, 1, STB_GLOBAL, STT_FUNC),
                   Undef("foo"), Undef("nosuch") >>,
     symtab |-> << NullSym >>,
     rela |-> << Rela(R_AARCH64_GLOB_DAT, 2, 2048, 0),
                 Rela(R_AARCH64_JUMP_SLOT, 3, 2056, 0) >>,
     relr |-> << >>,
     words |-> (2048 :> 0) @@ (2056 :> 640),
     has_init |-> FALSE, init_array_count |-> 1,
     has_fini |-> FALSE, fini_array_count |-> 0, eh_frame |-> 1024]

\* bad.so: a file with loadable program headers whose ELF header is rejected
FileBad ==
    [valid |-> FALSE, load_size |-> PageSize, min_vaddr |-> 0, bias |-> 0,
     needed |-> << >>, tls |-> NoTls, has_hash |-> FALSE,
     dynsym |-> << NullSym >>, symtab |-> << NullSym >>, rela |-> << >>,
     relr |-> << >>, words |-> << >>,
     has_init |-> FALSE, init_array_count |-> 0,
     has_fini |-> FALSE, fini_array_count |-> 0, eh_frame |-> 0]

\* libc.so: resident in the host process
FileLibC ==
    [valid |-> TRUE, load_size |-> PageSize, min_vaddr |-> 0, bias |-> 0,
     needed |-> << >>, tls |-> Tls(32, 8, 0), has_hash |-> TRUE,
     dynsym |-> << NullSym, Sym("hsym", 64, 1, STB_GLOBAL, STT_FUNC) >>,
     symtab |-> << NullSym >>, rela |-> << >>, relr |-> << >>, words |-> << >>,
     has_init |-> TRUE, init_array_count |-> 1,
     has_fini |-> TRUE, fini_array_count |-> 1, eh_frame |-> 1024]

FileSystem ==
    (PathApp :> FileApp) @@ (PathPlug :> FilePlug) @@ (PathBad :> FileBad) @@
    (PathLibA :> FileLibA) @@ (PathLibB :> FileLibB) @@ (PathLibC :> FileLibC)

\* what the host's dl_iterate_phdr reports, in order
HostLoaded == << [dlpi_name |-> PathLibC, dlpi_addr |-> RegionBase(1)] >>

\* the directory names of which one ends with the other: <<longer, shorter>>
DirSuffixes == { <<"/mnt/overlay/system/lib64/", "/system/lib64/">> }

\* strstr(hay, needle) != nullptr for two file paths: the same file name, and
\* the directory of needle ends the directory of hay
Contains(hay, needle) ==
    hay[2] = needle[2] /\ (hay[1] = needle[1] \/ <<hay[1], needle[1]>> \in DirSuffixes)

\* the paths the caller passes to load()
LoadPaths == {PathApp, PathPlug, PathBad, PathMissing}

\* ------------------------------------------------------------ null values
NoPath == <<"", "">>

\* a null ElfImage* / an empty unique_ptr<ElfImage>
NoImage == [id |-> 0, path_ |-> NoPath, base_ |-> 0, bias_ |-> 0, tls_mod_id_ |-> 0]

\* nothing fails in this call
NoFail == [path |-> NoPath, mode |-> "none"]

\* what may fail in one call, for one file: open/pread of the file, the
\* reserving mmap, a segment's mmap, or open/fstat/malloc/read in ElfImage::init
FailModes == {"open", "reserve", "segment", "read"}

Fails(fail, path, mode) == fail.path = path /\ fail.mode = mode

\* dlsym(RTLD_DEFAULT, name) in this process, 0 for a null result
HostDlsym(name) ==
    IF name \in DOMAIN proc.host_symbols THEN proc.host_symbols[name] ELSE 0

\* ------------------------------------------------------------ address space
\* mmap(nullptr, size, PROT_NONE, MAP_PRIVATE | MAP_ANONYMOUS): a fresh region
Mmap(w, path, size) ==
    LET base == RegionBase(w.proc.next_region)
    IN  [w EXCEPT !.proc.next_region = @ + 1,
                  !.proc.regions = @ @@ (base :> [size |-> size, path |-> path,
                                                  mapped |-> TRUE, unmaps |-> 0,
                                                  host |-> FALSE])]

\* munmap(base, size): the region goes, and the words in it with it
Munmap(w, base, size) ==
    IF base \notin DOMAIN w.proc.regions THEN w
    ELSE [w EXCEPT !.proc.regions[base].mapped = FALSE,
                   !.proc.regions[base].unmaps = @ + 1,
                   !.proc.mem = [a \in {x \in DOMAIN @ : x < base \/ x >= base + size}
                                   |-> @[a]]]

\* the words of the file's segments that relocation will touch, at their
\* run-time addresses
SegmentWords(file, load_bias) ==
    [a \in {load_bias + v : v \in DOMAIN file.words} |-> file.words[a - load_bias]]

GetLoadSize(file) == file.load_size

\* Linker::loadLibraryManually: [w, base, map_size]; base = 0 is nullptr
LoadLibraryManually(w, path, fail) ==
    IF path \notin DOMAIN fs \/ Fails(fail, path, "open")
    THEN [w |-> w, base |-> 0, map_size |-> 0]
    ELSE
    LET file == fs[path]
        size == GetLoadSize(file)
        base == RegionBase(w.proc.next_region)
        w1 == Mmap(w, path, size)
    IN  IF size = 0 THEN [w |-> w, base |-> 0, map_size |-> 0]
        ELSE IF Fails(fail, path, "reserve") THEN [w |-> w, base |-> 0, map_size |-> size]
        ELSE IF Fails(fail, path, "segment")
        THEN [w |-> Munmap(w1, base, size), base |-> 0, map_size |-> size]
        ELSE [w |-> [w1 EXCEPT !.proc.mem = SegmentWords(file, base - file.min_vaddr) @@ @],
              base |-> base, map_size |-> size]

\* ---------------------------------------------------------------- ElfImage
\* the dl_iterate_phdr callback of ElfImage::init: the first resident library
\* whose name contains the path
HostMatches(w, path) ==
    {i \in DOMAIN w.proc.host_loaded : Contains(w.proc.host_loaded[i].dlpi_name, path)}

\* ElfImage::create(path, base): [ok, img, w]
ElfImageCreate(w, path, base, fail) ==
    LET found == HostMatches(w, path)
        base_ == IF base # 0 THEN base
                 ELSE IF found # {} THEN w.proc.host_loaded[Min(found)].dlpi_addr ELSE 0
        path_ == IF base = 0 /\ found # {} THEN w.proc.host_loaded[Min(found)].dlpi_name
                 ELSE path
        bad == [ok |-> FALSE, img |-> NoImage, w |-> w]
    IN  IF base_ = 0 THEN bad
        ELSE IF path_ \notin DOMAIN fs \/ Fails(fail, path_, "read") THEN bad
        ELSE IF ~fs[path_].valid THEN bad
        ELSE [ok |-> TRUE,
              img |-> [id |-> w.proc.next_img, path_ |-> path_, base_ |-> base_,
                       bias_ |-> fs[path_].bias, tls_mod_id_ |-> 0],
              w |-> [w EXCEPT !.proc.next_img = @ + 1]]

FileOf(img) == fs[img.path_]

\* ElfImage::findSymbolOffset: the hash lookups answer from .dynsym, the
\* linear scan from .symtab; [found, sym]
DynsymLookup(file, name) ==
    LET hits == {i \in DOMAIN file.dynsym :
                    file.dynsym[i].st_name = name /\ file.dynsym[i].st_shndx # SHN_UNDEF}
    IN  IF file.has_hash /\ hits # {}
        THEN [found |-> TRUE, sym |-> file.dynsym[Min(hits)]]
        ELSE [found |-> FALSE, sym |-> NullSym]

LinearLookup(file, name) ==
    LET hits == {i \in DOMAIN file.symtab :
                    /\ file.symtab[i].st_type \in {STT_FUNC, STT_OBJECT}
                    /\ file.symtab[i].st_size > 0
                    /\ file.symtab[i].st_shndx # SHN_UNDEF
                    /\ file.symtab[i].st_name = name}
    IN  IF Len(file.symtab) > 0 /\ hits # {}
        THEN [found |-> TRUE, sym |-> file.symtab[Min(hits)]]
        ELSE [found |-> FALSE, sym |-> NullSym]

FindSymbolOffset(file, name) ==
    IF DynsymLookup(file, name).found THEN DynsymLookup(file, name)
    ELSE LinearLookup(file, name)

\* ElfImage::findSymbolAddress: [found, addr, bind]
FindSymbolAddress(img, name) ==
    LET r == FindSymbolOffset(FileOf(img), name)
    IN  IF ~r.found \/ img.base_ = 0
        THEN [found |-> FALSE, addr |-> 0, bind |-> 0]
        ELSE [found |-> TRUE, addr |-> Wrap64(img.base_ + r.sym.st_value - img.bias_),
              bind |-> r.sym.st_bind]

\* ----------------------------------------------------------- symbol lookup
\* a default-constructed SymbolLookup; valid() is address != nullptr
NoLookup == [address |-> 0, image |-> 0, bind |-> 0]

Valid(sym) == sym.address # 0

\* the images Linker::findSymbol searches, in its order: the main image, then
\* the dependencies whose image is not null
SearchOrder(l) ==
    (IF l.main_image_.id # 0 THEN <<l.main_image_>> ELSE << >>) \o
    SelectSeq([i \in DOMAIN l.deps_ |-> l.deps_[i].image], LAMBDA im : im.id # 0)

\* a scan that returns the first definition it meets, whatever its binding
RECURSIVE ScanImagesFirstHit(_, _, _, _, _)
ScanImagesFirstHit(imgs, i, name, result, weak_result) ==
    IF i > Len(imgs)
    THEN [returned |-> FALSE, result |-> result, weak_result |-> weak_result]
    ELSE
    LET r == FindSymbolAddress(imgs[i], name)
        hit == [address |-> r.addr, image |-> imgs[i].id, bind |-> r.bind]
    IN  IF ~r.found THEN ScanImagesFirstHit(imgs, i + 1, name, result, weak_result)
        ELSE [returned |-> TRUE, result |-> hit, weak_result |-> weak_result]

\* the two loops of Linker::findSymbol over SearchOrder, from image i on:
\* [returned, result, weak_result]
RECURSIVE ScanImages(_, _, _, _, _)
ScanImages(imgs, i, name, result, weak_result) ==
    IF i > Len(imgs)
    THEN [returned |-> FALSE, result |-> result, weak_result |-> weak_result]
    ELSE
    LET r == FindSymbolAddress(imgs[i], name)
        hit == [address |-> r.addr, image |-> imgs[i].id, bind |-> r.bind]
    IN  IF ~r.found THEN ScanImages(imgs, i + 1, name, result, weak_result)
        ELSE IF r.bind = STB_GLOBAL
        THEN [returned |-> TRUE, result |-> hit, weak_result |-> weak_result]
        ELSE IF r.bind = STB_WEAK /\ ~Valid(weak_result)
        THEN ScanImages(imgs, i + 1, name, hit, hit)
        ELSE ScanImages(imgs, i + 1, name, hit, weak_result)

\* Linker::findSymbol
FindSymbol(l, name) ==
    LET s == ScanImages(SearchOrder(l), 1, name, NoLookup, NoLookup)
    IN  IF s.returned THEN s.result
        ELSE IF Valid(s.result) /\ s.result.bind # STB_WEAK THEN s.result
        ELSE IF Valid(s.weak_result) THEN s.weak_result
        ELSE IF HostDlsym(name) # 0
        THEN [address |-> HostDlsym(name), image |-> 0, bind |-> STB_GLOBAL]
        ELSE NoLookup

\* Linker::findSymbolCached: [w, sym]; a cache hit carries no binding
FindSymbolCached(w, name) ==
    LET cache == w.lk.symbol_cache_
        result == FindSymbol(w.lk, name)
    IN  IF name \in DOMAIN cache
        THEN [w |-> w,
              sym |-> IF cache[name].found
                      THEN [address |-> cache[name].address, image |-> cache[name].image,
                            bind |-> 0]
                      ELSE NoLookup]
        ELSE [w |-> [w EXCEPT !.lk.symbol_cache_ =
                        (name :> [address |-> result.address, image |-> result.image,
                                  found |-> Valid(result)]) @@ @],
              sym |-> result]

\* ------------------------------------------------------------- TlsManager
\* a value-initialised TlsModule
NoModule ==
    [module_id |-> 0, align |-> 1, memsz |-> 0, filesz |-> 0, offset |-> 0,
     init_image |-> 0, owner |-> 0]

RECURSIVE BitAnd(_, _)
BitAnd(x, y) ==
    IF x = 0 \/ y = 0 THEN 0
    ELSE 2 * BitAnd(x \div 2, y \div 2) + (IF x % 2 = 1 /\ y % 2 = 1 THEN 1 ELSE 0)

\* no rounding at all
AlignMaskNone(size, align) == size

\* (size + align - 1) & ~(align - 1) in size_t
AlignMask(size, align) ==
    BitAnd(Wrap64(size + align - 1), (AddrSpace - 1) - Wrap64(align - 1))

\* the first loop of registerSegment: the lowest slot with module_id == 0,
\* or 0 when there is none
FreeSlot(modules) ==
    LET free == {i \in 1 .. MAX_TLS_MODULES - 1 : modules[i].module_id = 0}
    IN  IF free = {} THEN 0 ELSE Min(free)

\* TlsManager::registerSegment(image): [w, mod_id] where mod_id is what the
\* image's tls_mod_id_ holds afterwards
RegisterSegment(w, img) ==
    LET seg == FileOf(img).tls
        mod_id == FreeSlot(w.tlsm.modules_)
        align == IF seg.p_align # 0 THEN seg.p_align ELSE 1
        offset == AlignMask(w.tlsm.static_size_, align)
        m == [module_id |-> mod_id, align |-> align, memsz |-> seg.p_memsz,
              filesz |-> seg.p_filesz, offset |-> offset,
              init_image |-> Wrap64(img.base_ + seg.p_vaddr - img.bias_),
              owner |-> img.id]
    IN  IF ~seg.present \/ mod_id = 0 THEN [w |-> w, mod_id |-> img.tls_mod_id_]
        ELSE [w |-> [w EXCEPT !.tlsm.modules_[mod_id] = m,
                              !.tlsm.static_size_ = Wrap64(offset + seg.p_memsz),
                              !.tlsm.static_align_max_ = IF align > @ THEN align ELSE @],
              mod_id |-> mod_id]

\* TlsManager::unregisterSegment(image)
UnregisterSegment(w, image) ==
    LET owned == {i \in 1 .. MAX_TLS_MODULES - 1 : w.tlsm.modules_[i].owner = image}
    IN  IF owned = {} THEN w
        ELSE [w EXCEPT !.tlsm.modules_[Min(owned)] = NoModule]

\* the byte at position k of a module's initialisation image
TlsInitByte(m, k) == 100 + k

\* posix_memalign accepts an alignment that is a power of two and a multiple
\* of sizeof(void*), and fails with EINVAL for any other
RECURSIVE PosixMemalignOk(_)
PosixMemalignOk(align) ==
    IF align = 8 THEN TRUE
    ELSE IF align < 8 \/ align % 2 = 1 THEN FALSE
    ELSE PosixMemalignOk(align \div 2)

\* TlsManager::allocateBlock on thread t: posix_memalign, memset, then the
\* init image of every registered module; the block becomes the thread's.
\* When posix_memalign fails nothing changes and the thread has no block.
AllocateBlock(w, t) ==
    LET a0 == IF w.tlsm.static_align_max_ # 0 THEN w.tlsm.static_align_max_ ELSE 8
        align == IF a0 > PageSize THEN PageSize ELSE a0
        total == w.tlsm.static_size_ + align
        block == BlockBase(w.proc.next_block)
        mods == {i \in 1 .. MAX_TLS_MODULES - 1 :
                    LET m == w.tlsm.modules_[i]
                    IN  m.owner # 0 /\ m.init_image # 0 /\ m.filesz > 0
                        /\ m.offset + m.filesz <= total}
        Covering(k) == {i \in mods : LET m == w.tlsm.modules_[i]
                                     IN  m.offset <= k /\ k < m.offset + m.filesz}
        data == [k \in 0 .. total - 1 |->
                    IF Covering(k) = {} THEN 0
                    ELSE LET m == w.tlsm.modules_[CHOOSE i \in Covering(k) :
                                                    \A j \in Covering(k) : j <= i]
                         IN  TlsInitByte(m, k - m.offset)]
    IN  IF ~PosixMemalignOk(align) THEN w
        ELSE [w EXCEPT !.proc.next_block = @ + 1,
                       !.proc.blocks = @ @@ (block :> [size |-> total, data |-> data]),
                       !.thr[t].block = block]

\* a getBlockForThread that hands every thread the block allocated first
GetBlockShared(w, t) ==
    IF w.proc.next_block > 1 THEN [w |-> w, block |-> BlockBase(1)]
    ELSE [w |-> AllocateBlock(w, t), block |-> AllocateBlock(w, t).thr[t].block]

\* TlsManager::getBlockForThread on thread t: [w, block]
GetBlockForThread(w, t) ==
    IF w.thr[t].block # 0 THEN [w |-> w, block |-> w.thr[t].block]
    ELSE [w |-> AllocateBlock(w, t), block |-> AllocateBlock(w, t).thr[t].block]

\* a null TlsIndex*
NullTi == [null |-> TRUE, module |-> 0, offset |-> 0]

Ti(module, offset) == [null |-> FALSE, module |-> module, offset |-> offset]

\* TlsManager::getAddress(ti) on thread t: [w, addr]
GetAddress(w, t, ti) ==
    LET b == GetBlockForThread(w, t)
        off == Wrap64(b.w.tlsm.modules_[ti.module].offset + ti.offset)
    IN  IF b.block = 0 THEN [w |-> b.w, addr |-> 0]
        ELSE IF ti.null THEN [w |-> b.w, addr |-> b.block]
        ELSE IF ti.module = 0 \/ ti.module >= MAX_TLS_MODULES THEN [w |-> b.w, addr |-> 0]
        ELSE IF b.w.tlsm.modules_[ti.module].module_id = 0 THEN [w |-> b.w, addr |-> 0]
        ELSE IF off >= b.w.tlsm.static_size_ THEN [w |-> b.w, addr |-> 0]
        ELSE [w |-> b.w, addr |-> b.block + off]

\* TlsManager::allocateIndex: a new TlsIndex on the heap; [w, ti] with ti
\* its address
AllocateIndex(w, module, st_value, addend) ==
    LET ti == TlsIndexAddr(w.proc.next_ti)
    IN  [w |-> [w EXCEPT !.proc.next_ti = @ + 1,
                         !.proc.tindex = @ @@ (ti :> [module |-> module,
                                                      offset |-> Wrap64(st_value + addend)])],
         ti |-> ti]

\* -------------------------------------------------------- BacktraceManager
\* a value-initialised LibInfo
NoLib == [in_use |-> FALSE, image |-> 0, eh_frame_registered |-> 0]

\* BacktraceManager::registerLibrary(image)
RegisterLibrary(w, img) ==
    LET free == {i \in 0 .. MAX_CUSTOM_LIBS - 1 : ~w.bt.libs_[i].in_use}
    IN  IF free = {} THEN w
        ELSE [w EXCEPT !.bt.libs_[Min(free)] =
                          [in_use |-> TRUE, image |-> img.id, eh_frame_registered |-> 0]]

\* ElfImage::ehFrame(): where the .eh_frame section lies at run time, 0 if none
EhFrame(img) ==
    IF FileOf(img).eh_frame = 0 THEN 0
    ELSE Wrap64(img.base_ + FileOf(img).eh_frame - img.bias_)

\* BacktraceManager::registerEhFrame(image): __register_frame, then the slot
\* of the image (if it has one) remembers the frame
RegisterEhFrame(w, img) ==
    LET slots == {i \in 0 .. MAX_CUSTOM_LIBS - 1 :
                     w.bt.libs_[i].in_use /\ w.bt.libs_[i].image = img.id}
        w1 == [w EXCEPT !.bt.frames = @ \cup {EhFrame(img)}]
    IN  IF EhFrame(img) = 0 THEN w
        ELSE IF slots = {} THEN w1
        ELSE [w1 EXCEPT !.bt.libs_[Min(slots)].eh_frame_registered = EhFrame(img)]

\* BacktraceManager::unregisterEhFrame(image)
UnregisterEhFrame(w, image) ==
    LET slots == {i \in 0 .. MAX_CUSTOM_LIBS - 1 :
                     /\ w.bt.libs_[i].in_use
                     /\ w.bt.libs_[i].image = image
                     /\ w.bt.libs_[i].eh_frame_registered # 0}
    IN  IF slots = {} THEN w
        ELSE [w EXCEPT !.bt.frames = @ \ {w.bt.libs_[Min(slots)].eh_frame_registered},
                       !.bt.libs_[Min(slots)].eh_frame_registered = 0]

\* BacktraceManager::unregisterLibrary(image)
UnregisterLibrary(w, image) ==
    LET slots == {i \in 0 .. MAX_CUSTOM_LIBS - 1 :
                     w.bt.libs_[i].in_use /\ w.bt.libs_[i].image = image}
        s == Min(slots)
    IN  IF slots = {} THEN w
        ELSE [w EXCEPT !.bt.frames = IF w.bt.libs_[s].eh_frame_registered # 0
                                     THEN @ \ {w.bt.libs_[s].eh_frame_registered} ELSE @,
                       !.bt.libs_[s] = NoLib]

\* ------------------------------------------------------------- relocation
MemRead(w, addr) == IF addr \in DOMAIN w.proc.mem THEN w.proc.mem[addr] ELSE 0

\* a store to a word of a mapped segment
MemWrite(w, addr, val) ==
    IF addr \in DOMAIN w.proc.mem THEN [w EXCEPT !.proc.mem[addr] = val] ELSE w

\* the images the linker holds: what an ElfImage* can point to
LiveImages(l) == Range(SearchOrder(l))

\* sym.image->tlsModuleId(), 0 when the image has no TLS segment; a pointer
\* to an image that has been freed reads whatever lies there now (dangling)
ImageTlsModuleId(w, image, dangling) ==
    LET live == {im \in LiveImages(w.lk) : im.id = image}
    IN  IF live = {} THEN dangling
        ELSE LET im == CHOOSE x \in live : TRUE
             IN  IF FileOf(im).tls.present THEN im.tls_mod_id_ ELSE 0

SymbolicTypes ==
    {R_AARCH64_GLOB_DAT, R_AARCH64_ABS64, R_AARCH64_JUMP_SLOT, R_AARCH64_TLS_DTPMOD,
     R_AARCH64_TLS_DTPREL, R_AARCH64_TLS_TPREL, R_AARCH64_TLSDESC}

\* what an IFUNC resolver at address a returns
IfuncResolve(a) == Wrap64(a + 16)

\* the symbolic cases of Linker::processRelocation, from the lookup c of the
\* symbol's name on: [w, sym] as findSymbolCached returned it
ApplySymbolic(c, r, target, sym_name, st_value, is_rela, dangling) ==
    LET w == c.w
        sym == c.sym
        addend == IF is_rela THEN r.r_addend ELSE MemRead(w, target)
        mod == ImageTlsModuleId(w, sym.image, dangling)
        tp == GetAddress(w, "main", Ti(mod, Wrap64(st_value + r.r_addend)))
        base == GetAddress(tp.w, "main", NullTi)
        ai == AllocateIndex(w, mod, st_value, r.r_addend)
    IN  IF ~Valid(sym) THEN w
        ELSE IF sym_name = "dl_iterate_phdr"
        THEN MemWrite(w, target, CustomDlIteratePhdrAddr)
        ELSE IF sym_name = "dladdr"
        THEN MemWrite(w, target, CustomDladdrAddr)
        ELSE
        CASE r.r_type \in {R_AARCH64_GLOB_DAT, R_AARCH64_JUMP_SLOT} ->
                MemWrite(w, target, sym.address)
          [] r.r_type = R_AARCH64_ABS64 ->
                MemWrite(w, target, Wrap64(sym.address + addend))
          [] r.r_type = R_AARCH64_TLS_DTPMOD ->
                MemWrite(w, target, IF sym.image = 0 THEN 0 ELSE mod)
          [] r.r_type = R_AARCH64_TLS_DTPREL ->
                MemWrite(w, target, Wrap64(st_value + r.r_addend))
          [] r.r_type = R_AARCH64_TLS_TPREL ->
                IF sym.image = 0 THEN MemWrite(w, target, 0)
                ELSE IF tp.addr # 0
                THEN MemWrite(base.w, target, Wrap64(tp.addr - base.addr))
                ELSE MemWrite(tp.w, target, 0)
          [] r.r_type = R_AARCH64_TLSDESC ->
                IF sym.image = 0
                THEN MemWrite(MemWrite(w, target, 0), target + 8, 0)
                ELSE [MemWrite(MemWrite(ai.w, target, DynamicTlsResolverAddr),
                               target + 8, ai.ti)
                        EXCEPT !.lk.tls_indices_ = Append(@, ai.ti)]
          [] OTHER -> w

\* Linker::processRelocation
ProcessRelocation(w, r, load_bias, dynsym, is_rela, dangling) ==
    LET target == Wrap64(load_bias + r.r_offset)
        sym_name == dynsym[r.r_sym + 1].st_name
    IN  CASE r.r_type \in {R_AARCH64_NONE, R_AARCH64_COPY} -> w
          [] r.r_type = R_AARCH64_RELATIVE ->
                MemWrite(w, target,
                         Wrap64(load_bias + (IF is_rela THEN r.r_addend
                                             ELSE MemRead(w, target))))
          [] r.r_type = R_AARCH64_IRELATIVE ->
                MemWrite(w, target,
                         IfuncResolve(Wrap64(load_bias + (IF is_rela THEN r.r_addend
                                                          ELSE MemRead(w, target)))))
          [] r.r_type \in SymbolicTypes ->
                ApplySymbolic(FindSymbolCached(w, sym_name), r, target, sym_name,
                              dynsym[r.r_sym + 1].st_value, is_rela, dangling)
          [] OTHER -> w

\* the DT_RELA loop of Linker::processRelocations, from entry i on
RECURSIVE RelaLoop(_, _, _, _, _)
RelaLoop(w, img, i, load_bias, dangling) ==
    IF i > Len(FileOf(img).rela) THEN w
    ELSE RelaLoop(ProcessRelocation(w, FileOf(img).rela[i], load_bias,
                                    FileOf(img).dynsym, TRUE, dangling),
                  img, i + 1, load_bias, dangling)

\* a RELR pass that leaves the word as the file has it
MemAddNone(w, addr, load_bias) == w

\* *target += load_bias
MemAdd(w, addr, load_bias) == MemWrite(w, addr, Wrap64(MemRead(w, addr) + load_bias))

\* the inner loop of the RELR pass over one bitmap entry, from bit on
RECURSIVE RelrBitmap(_, _, _, _, _)
RelrBitmap(w, bitmap, bit, base_offset, load_bias) ==
    IF bitmap = 0 \/ bit >= 63 THEN w
    ELSE RelrBitmap(IF bitmap % 2 = 1
                    THEN MemAdd(w, Wrap64(load_bias + base_offset + bit * 8), load_bias)
                    ELSE w,
                    bitmap \div 2, bit + 1, base_offset, load_bias)

\* a RELR pass whose bitmap entries leave the base where it is
RECURSIVE RelrLoopNoAdvance(_, _, _, _, _)
RelrLoopNoAdvance(w, relr, i, base_offset, load_bias) ==
    IF i > Len(relr) THEN w
    ELSE IF relr[i] % 2 = 0
    THEN RelrLoopNoAdvance(MemAdd(w, Wrap64(load_bias + relr[i]), load_bias),
                           relr, i + 1, relr[i] + 8, load_bias)
    ELSE RelrLoopNoAdvance(RelrBitmap(w, relr[i] \div 2, 0, base_offset, load_bias),
                           relr, i + 1, base_offset, load_bias)

\* the DT_RELR pass of Linker::processRelocations, from entry i on
RECURSIVE RelrLoop(_, _, _, _, _)
RelrLoop(w, relr, i, base_offset, load_bias) ==
    IF i > Len(relr) THEN w
    ELSE IF relr[i] % 2 = 0
    THEN RelrLoop(MemAdd(w, Wrap64(load_bias + relr[i]), load_bias),
                  relr, i + 1, relr[i] + 8, load_bias)
    ELSE RelrLoop(RelrBitmap(w, relr[i] \div 2, 0, base_offset, load_bias),
                  relr, i + 1, base_offset + 63 * 8, load_bias)

\* Linker::processRelocations(image): the RELR pass, then DT_RELA and DT_JMPREL
ProcessRelocations(w, img, dangling) ==
    RelaLoop(RelrLoop(w, FileOf(img).relr, 1, 0, Wrap64(img.base_ - img.bias_)),
             img, 1, Wrap64(img.base_ - img.bias_), dangling)

\* ------------------------------------------------------------------ Linker
\* Linker::findLibraryPath(name): [ok, path]
FindLibraryPath(name) ==
    LET special == IF name[2] = "libc++.so"
                   THEN << <<"/apex/com.android.runtime/lib64/", "libc++.so">>,
                           <<"/system/lib64/", "libc++.so">> >>
                   ELSE << >>
        cands == special \o [i \in DOMAIN SearchPaths |-> <<SearchPaths[i], name[2]>>]
        hits == {i \in DOMAIN cands : cands[i] \in DOMAIN fs}
    IN  IF IsAbsolute(name) THEN [ok |-> name \in DOMAIN fs, path |-> name]
        ELSE IF hits = {} THEN [ok |-> FALSE, path |-> cands[Len(cands)]]
        ELSE [ok |-> TRUE, path |-> cands[Min(hits)]]

\* Linker::isLoaded(path)
IsLoadedPath(l, path) ==
    \/ l.main_image_.id # 0 /\ l.main_image_.path_ = path
    \/ \E i \in DOMAIN l.deps_ : l.deps_[i].image.id # 0 /\ l.deps_[i].image.path_ = path

\* the collectNeeded lambda: the DT_NEEDED names not seen before, appended
RECURSIVE CollectNeeded(_, _, _, _)
CollectNeeded(needed, i, names, out) ==
    IF i > Len(needed) THEN [names |-> names, out |-> out]
    ELSE IF needed[i] \in names THEN CollectNeeded(needed, i + 1, names, out)
    ELSE CollectNeeded(needed, i + 1, names \cup {needed[i]}, Append(out, needed[i]))

\* one pass of the worklist loop of Linker::loadDependencies, for entry i:
\* [ok, w, to_load, names]; ok = FALSE is its return false
DepPass(w, to_load, names, i, fail) ==
    LET p == FindLibraryPath(to_load[i])
        check == ElfImageCreate(w, p.path, 0, fail)
        m == LoadLibraryManually(w, p.path, fail)
        made == ElfImageCreate(m.w, p.path, m.base, fail)
        more == CollectNeeded(FileOf(made.img).needed, 1, names, to_load)
        adopted == [image |-> check.img, is_manual_load |-> FALSE,
                    map_base |-> 0, map_size |-> 0]
        manual == [image |-> made.img, is_manual_load |-> TRUE,
                   map_base |-> m.base, map_size |-> m.map_size]
        skip == [ok |-> TRUE, w |-> w, to_load |-> to_load, names |-> names]
    IN  IF ~p.ok THEN skip
        ELSE IF IsLoadedPath(w.lk, p.path) THEN skip
        ELSE IF check.ok
        THEN [skip EXCEPT !.w = [check.w EXCEPT !.lk.deps_ = Append(@, adopted)]]
        ELSE IF m.base = 0 THEN [skip EXCEPT !.ok = FALSE, !.w = m.w]
        ELSE IF ~made.ok
        THEN [skip EXCEPT !.ok = FALSE, !.w = Munmap(m.w, m.base, m.map_size)]
        ELSE [ok |-> TRUE, w |-> [made.w EXCEPT !.lk.deps_ = Append(@, manual)],
              to_load |-> more.out, names |-> more.names]

\* the worklist loop of Linker::loadDependencies, from entry i on: [ok, w];
\* r is what the pass over entry i leaves
RECURSIVE DepLoop(_, _, _, _, _)
DepLoop(w, to_load, names, i, fail) ==
    IF i > Len(to_load) THEN [ok |-> TRUE, w |-> w]
    ELSE CHOOSE out \in {IF ~r.ok THEN [ok |-> FALSE, w |-> r.w]
                          ELSE DepLoop(r.w, r.to_load, r.names, i + 1, fail) :
                             r \in {DepPass(w, to_load, names, i, fail)}} : TRUE

\* Linker::loadDependencies: [ok, w]
LoadDependencies(w, fail) ==
    LET first == CollectNeeded(FileOf(w.lk.main_image_).needed, 1, {}, << >>)
    IN  DepLoop(w, first.out, first.names, 1, fail)

\* one call of a constructor or destructor function, or of the routine that
\* runs an image's: <<what, image, index>>
Call(what, img, k) == <<what, img.id, k>>

\* Linker::callConstructors(image)
CallConstructors(w, img) ==
    [w EXCEPT !.hist.calls =
        @ \o <<Call("callConstructors", img, 0)>>
          \o (IF FileOf(img).has_init THEN <<Call("DT_INIT", img, 0)>> ELSE << >>)
          \o [k \in 1 .. FileOf(img).init_array_count |-> Call("DT_INIT_ARRAY", img, k - 1)]]

\* a callDestructors that runs DT_FINI before the DT_FINI_ARRAY entries
CallDestructorsFiniFirst(w, img) ==
    LET n == FileOf(img).fini_array_count
    IN  [w EXCEPT !.hist.calls =
            @ \o <<Call("callDestructors", img, 0)>>
              \o (IF FileOf(img).has_fini THEN <<Call("DT_FINI", img, 0)>> ELSE << >>)
              \o [k \in 1 .. n |-> Call("DT_FINI_ARRAY", img, n - k)]]

\* Linker::callDestructors(image)
CallDestructors(w, img) ==
    LET n == FileOf(img).fini_array_count
    IN  [w EXCEPT !.hist.calls =
            @ \o <<Call("callDestructors", img, 0)>>
              \o [k \in 1 .. n |-> Call("DT_FINI_ARRAY", img, n - k)]
              \o (IF FileOf(img).has_fini THEN <<Call("DT_FINI", img, 0)>> ELSE << >>)]

\* phase 2 of Linker::link for the dependencies, from dependency i on
RECURSIVE RegisterDeps(_, _)
RegisterDeps(w, i) ==
    IF i > Len(w.lk.deps_) THEN w
    ELSE LET r == RegisterSegment(w, w.lk.deps_[i].image)
         IN  RegisterDeps([r.w EXCEPT !.lk.deps_[i].image.tls_mod_id_ = r.mod_id], i + 1)

\* phase 4 for the dependencies
RECURSIVE RelocateDeps(_, _, _)
RelocateDeps(w, i, dangling) ==
    IF i > Len(w.lk.deps_) THEN w
    ELSE IF w.lk.deps_[i].is_manual_load
    THEN RelocateDeps(ProcessRelocations(w, w.lk.deps_[i].image, dangling), i + 1, dangling)
    ELSE RelocateDeps(w, i + 1, dangling)

\* phase 6 for the dependencies
RECURSIVE BacktraceDeps(_, _)
BacktraceDeps(w, i) ==
    IF i > Len(w.lk.deps_) THEN w
    ELSE IF w.lk.deps_[i].is_manual_load
    THEN BacktraceDeps(RegisterEhFrame(RegisterLibrary(w, w.lk.deps_[i].image),
                                       w.lk.deps_[i].image), i + 1)
    ELSE BacktraceDeps(w, i + 1)

\* phase 7 for the dependencies
RECURSIVE ConstructDeps(_, _)
ConstructDeps(w, i) ==
    IF i > Len(w.lk.deps_) THEN w
    ELSE IF w.lk.deps_[i].is_manual_load
    THEN ConstructDeps(CallConstructors(w, w.lk.deps_[i].image), i + 1)
    ELSE ConstructDeps(w, i + 1)

\* phase 2 without the bumpGeneration call
RegisterTlsNoBump(w) ==
    LET r == RegisterSegment(w, w.lk.main_image_)
    IN  RegisterDeps([r.w EXCEPT !.lk.main_image_.tls_mod_id_ = r.mod_id], 1)

\* phase 2 of Linker::link: the TLS segments of the main image and of every
\* dependency, then bumpGeneration
RegisterTls(w) ==
    LET r == RegisterSegment(w, w.lk.main_image_)
    IN  [RegisterDeps([r.w EXCEPT !.lk.main_image_.tls_mod_id_ = r.mod_id], 1)
            EXCEPT !.tlsm.generation_ = @ + 1]

\* phase 4: the relocations of the main image, then of the dependencies
Relocate(w, dangling) ==
    RelocateDeps(ProcessRelocations(w, w.lk.main_image_, dangling), 1, dangling)

\* phase 6: backtrace support of the main image, then of the dependencies
RegisterBacktrace(w) ==
    BacktraceDeps(RegisterEhFrame(RegisterLibrary(w, w.lk.main_image_), w.lk.main_image_), 1)

\* a phase 7 that runs the main image's constructors before the dependencies'
ConstructMainFirst(w) ==
    [ConstructDeps(CallConstructors(w, w.lk.main_image_), 1) EXCEPT !.lk.is_linked_ = TRUE]

\* phase 7: the constructors of the dependencies, then of the main image
Construct(w) ==
    [CallConstructors(ConstructDeps(w, 1), w.lk.main_image_) EXCEPT !.lk.is_linked_ = TRUE]

\* Linker::link: [ok, w]
Link(w, fail, dangling) ==
    LET d == LoadDependencies(w, fail)
    IN  IF ~d.ok THEN [ok |-> FALSE, w |-> d.w]
        ELSE [ok |-> TRUE,
              w |-> Construct(RegisterBacktrace(Relocate(RegisterTls(d.w), dangling)))]

\* the reverse loop of Linker::destroy over the dependencies that it mapped
\* itself: backtrace deregistration and destructors, from dependency i down
RECURSIVE DestroyDeps(_, _)
DestroyDeps(w, i) ==
    IF i < 1 THEN w
    ELSE LET dep == w.lk.deps_[i]
         IN  IF dep.image.id # 0 /\ dep.is_manual_load
             THEN DestroyDeps(CallDestructors(
                                  UnregisterLibrary(UnregisterEhFrame(w, dep.image.id),
                                                    dep.image.id),
                                  dep.image), i - 1)
             ELSE DestroyDeps(w, i - 1)

\* delete of every TlsIndex in tls_indices_, then tls_indices_.clear()
FreeTlsIndices(w) ==
    [w EXCEPT !.proc.tindex = [a \in DOMAIN @ \ Range(w.lk.tls_indices_) |-> @[a]],
              !.lk.tls_indices_ = << >>]

\* the reverse loop over the dependencies that unregisters their TLS segments
RECURSIVE UnregisterDeps(_, _)
UnregisterDeps(w, i) ==
    IF i < 1 THEN w
    ELSE IF w.lk.deps_[i].image.id # 0
    THEN UnregisterDeps(UnregisterSegment(w, w.lk.deps_[i].image.id), i - 1)
    ELSE UnregisterDeps(w, i - 1)

\* a teardown that unmaps no dependency
UnmapDepsNone(w, i) == w

\* the loop of Linker::destroy that unmaps the dependencies, from i on
RECURSIVE UnmapDeps(_, _)
UnmapDeps(w, i) ==
    IF i > Len(w.lk.deps_) THEN w
    ELSE LET dep == w.lk.deps_[i]
         IN  IF dep.is_manual_load /\ dep.map_size > 0
             THEN UnmapDeps(Munmap(w, dep.map_base, dep.map_size), i + 1)
             ELSE UnmapDeps(w, i + 1)

\* the images a teardown releases, each with the mapping the linker holds
\* for it and whether the linker made that mapping itself (history only)
Released(w, how) ==
    LET l == w.lk
        main == IF l.main_image_.id = 0 THEN {}
                ELSE {[id |-> l.main_image_.id, how |-> how, base |-> l.main_image_.base_,
                       manual |-> l.main_map_size_ > 0]}
        deps == {[id |-> l.deps_[i].image.id, how |-> how, base |-> l.deps_[i].image.base_,
                  manual |-> l.deps_[i].is_manual_load] :
                    i \in {j \in DOMAIN l.deps_ : l.deps_[j].image.id # 0}}
    IN  [w EXCEPT !.hist.released = @ \cup main \cup deps]

\* Linker::destroy
Destroy(w) ==
    LET main == w.lk.main_image_
        w0 == Released(w, "destroy")
        w1 == IF main.id # 0 /\ w.lk.is_linked_
              THEN CallDestructors(UnregisterLibrary(UnregisterEhFrame(w0, main.id), main.id),
                                   main)
              ELSE w0
        w2 == DestroyDeps(w1, Len(w1.lk.deps_))
        w3 == FreeTlsIndices(w2)
        w4 == UnregisterDeps(w3, Len(w3.lk.deps_))
        w5 == IF main.id # 0 THEN UnregisterSegment(w4, main.id) ELSE w4
        w6 == [UnmapDeps(w5, 1) EXCEPT !.lk.deps_ = << >>]
        w7 == IF w.lk.main_map_size_ > 0 /\ main.id # 0
              THEN Munmap(w6, main.base_, w.lk.main_map_size_)
              ELSE w6
    IN  [w7 EXCEPT !.lk.main_image_ = NoImage, !.lk.is_linked_ = FALSE,
                   !.lk.main_map_size_ = 0]

\* the first loop of Linker::abandon: backtrace deregistration of the
\* dependencies the linker mapped itself
RECURSIVE AbandonDeps(_, _)
AbandonDeps(w, i) ==
    IF i > Len(w.lk.deps_) THEN w
    ELSE LET dep == w.lk.deps_[i]
         IN  IF dep.image.id # 0 /\ dep.is_manual_load
             THEN AbandonDeps(UnregisterLibrary(UnregisterEhFrame(w, dep.image.id),
                                                dep.image.id), i + 1)
             ELSE AbandonDeps(w, i + 1)

\* Linker::abandon
Abandon(w) ==
    LET main == w.lk.main_image_
        w1 == AbandonDeps(Released(w, "abandon"), 1)
        w2 == IF main.id # 0 /\ w.lk.is_linked_
              THEN UnregisterLibrary(UnregisterEhFrame(w1, main.id), main.id)
              ELSE w1
        w3 == FreeTlsIndices(w2)
        w4 == UnregisterDeps(w3, Len(w3.lk.deps_))
        w5 == IF main.id # 0 THEN UnregisterSegment(w4, main.id) ELSE w4
    IN  [w5 EXCEPT !.lk.deps_ = << >>, !.lk.main_image_ = NoImage,
                   !.lk.is_linked_ = FALSE, !.lk.main_map_size_ = 0]

\* Linker::init(image)
LinkerInit(w, img) ==
    [w EXCEPT !.lk.main_image_ = img, !.lk.is_linked_ = FALSE,
              !.lk.main_map_size_ = 0, !.lk.deps_ = << >>]

\* ---------------------------------------------------------------- SoLoader
\* SoLoader::isLoaded
IsLoaded(s) == s.image_ # 0

\* SoLoader::getSymbol(name) as the handle s with linker l answers it
GetSymbol(s, l, name) ==
    IF ~IsLoaded(s) \/ l.main_image_.id # s.image_ THEN 0
    ELSE IF FindSymbolAddress(l.main_image_, name).found
    THEN FindSymbolAddress(l.main_image_, name).addr
    ELSE 0

\* a return false of SoLoader::load that leaves the world as x
LoadFailed(x) == [ret |-> FALSE, w |-> x, lib_path_ |-> NoPath, image_ |-> 0]

\* SoLoader::load from linker_.link() on, without the destroy() of a failed link
LoadLinkedNoDestroy(linked, lib_path) ==
    IF ~linked.ok THEN LoadFailed(linked.w)
    ELSE [ret |-> TRUE, w |-> linked.w, lib_path_ |-> lib_path,
          image_ |-> linked.w.lk.main_image_.id]

\* SoLoader::load from linker_.link() on
LoadLinked(linked, lib_path) ==
    IF ~linked.ok THEN LoadFailed(Destroy(linked.w))
    ELSE [ret |-> TRUE, w |-> linked.w, lib_path_ |-> lib_path,
          image_ |-> linked.w.lk.main_image_.id]

\* SoLoader::load from ElfImage::create on
LoadCreated(m, made, lib_path, fail, dangling) ==
    IF ~made.ok THEN LoadFailed(Munmap(m.w, m.base, m.map_size))
    ELSE LoadLinked(Link([LinkerInit(made.w, made.img)
                             EXCEPT !.lk.main_map_size_ = m.map_size], fail, dangling),
                    lib_path)

\* SoLoader::load from the result m of loadLibraryManually on
LoadMapped(m, lib_path, fail, dangling) ==
    IF m.base = 0 THEN LoadFailed(m.w)
    ELSE LoadCreated(m, ElfImageCreate(m.w, lib_path, m.base, fail), lib_path, fail,
                     dangling)

\* SoLoader::load(lib_path) after the isLoaded() test: [ret, w, lib_path_, image_]
LoadBody(w, lib_path, fail, dangling) ==
    IF lib_path \notin DOMAIN fs THEN LoadFailed(w)
    ELSE LoadMapped(LoadLibraryManually(w, lib_path, fail), lib_path, fail, dangling)

\* the world the operators thread through a call
World == [lk |-> lk, proc |-> proc, tlsm |-> tlsm, bt |-> bt, thr |-> thr, hist |-> hist]

\* the files a load of lib_path may touch: the library, and what it and the
\* libraries it needs name in DT_NEEDED
RECURSIVE Touched(_, _)
Touched(paths, n) ==
    LET more == UNION {{FindLibraryPath(fs[p].needed[i]).path :
                           i \in 1 .. Len(fs[p].needed)} : p \in paths \cap DOMAIN fs}
    IN  IF n = 0 THEN paths ELSE Touched(paths \cup (more \ {NoPath}), n - 1)

\* what a failure of this call may be about: any file it touches, in any way
FailChoices(lib_path) ==
    {NoFail} \cup [path : Touched({lib_path}, Cardinality(DOMAIN fs)) \cap DOMAIN fs,
                   mode : FailModes]

\* the value a read through a dangling ElfImage pointer yields: any, when the
\* cache holds an entry of an image that is gone, and no such read otherwise
DanglingChoices ==
    IF \E n \in DOMAIN lk.symbol_cache_ : lk.symbol_cache_[n].image # 0
    THEN 0 .. MaxDangling
    ELSE {0}

\* a call's record in the history
Record(h, op, ret, loaded, first_region) ==
    [h EXCEPT !.op = op, !.ret = ret, !.was_loaded = loaded,
              !.first_region = first_region, !.arg = NoPath, !.fault = "none"]

\* the state a call leaves: the handle s, the world w, the history h
Leave(s, w, h) ==
    /\ so' = s
    /\ lk' = w.lk
    /\ proc' = w.proc
    /\ tlsm' = w.tlsm
    /\ bt' = w.bt
    /\ thr' = w.thr
    /\ hist' = h
    /\ fs' = fs

\* the return of SoLoader::load(lib_path), r being what LoadBody made of it
LoadReturn(r, lib_path, fail) ==
    Leave(IF r.ret THEN [so EXCEPT !.lib_path_ = r.lib_path_, !.image_ = r.image_] ELSE so,
          r.w,
          [Record([r.w.hist EXCEPT !.nloads = @ + 1], "load", r.ret, FALSE,
                  proc.next_region) EXCEPT !.arg = lib_path, !.fault = fail.mode])

\* SoLoader::load without its isLoaded() test
LoadUnguarded(lib_path, fail, dangling) ==
    /\ so.alive
    /\ hist.nloads < MaxLoads
    /\ LoadReturn(LoadBody(World, lib_path, fail, dangling), lib_path, fail)

\* SoLoader::load(lib_path)
Load(lib_path, fail, dangling) ==
    /\ so.alive
    /\ hist.nloads < MaxLoads
    /\ IF IsLoaded(so)
       THEN Leave(so, World,
                  [Record([hist EXCEPT !.nloads = @ + 1], "load", FALSE, TRUE,
                          proc.next_region) EXCEPT !.arg = lib_path])
       ELSE LoadReturn(LoadBody(World, lib_path, fail, dangling), lib_path, fail)

\* the return of a teardown op that found a library loaded and left the world w
TornDown(op, w) ==
    Leave([so EXCEPT !.lib_path_ = NoPath, !.image_ = 0], w,
          Record(w.hist, op, TRUE, TRUE, hist.first_region))

\* SoLoader::unload after the isLoaded() test
UnloadBody(w) == Destroy(w)

\* SoLoader::unload()
Unload ==
    /\ so.alive
    /\ IF ~IsLoaded(so)
       THEN Leave(so, World, Record(hist, "unload", FALSE, FALSE, hist.first_region))
       ELSE TornDown("unload", UnloadBody(World))

\* SoLoader::abandon after the isLoaded() test
AbandonBody(w) == Abandon(w)

\* SoLoader::abandon()
AbandonLib ==
    /\ so.alive
    /\ IF ~IsLoaded(so)
       THEN Leave(so, World, Record(hist, "abandon", FALSE, FALSE, hist.first_region))
       ELSE TornDown("abandon", AbandonBody(World))

\* Linker::~Linker
LinkerDestruct(w) == IF w.lk.is_linked_ THEN Destroy(w) ELSE w

\* the end of the handle's life, w being the world its destructors left
Destructed(w) ==
    Leave([lib_path_ |-> NoPath, image_ |-> 0, alive |-> FALSE], w,
          Record(w.hist, "destruct", TRUE, IsLoaded(so), hist.first_region))

\* SoLoader::~SoLoader, then Linker::~Linker on its member
Destruct ==
    /\ so.alive
    /\ Destructed(LinkerDestruct(IF IsLoaded(so) THEN UnloadBody(World) ELSE World))

\* ------------------------------------------------------ the loader's runs
InitLinker ==
    [main_image_ |-> NoImage, deps_ |-> << >>, main_map_size_ |-> 0,
     is_linked_ |-> FALSE, symbol_cache_ |-> << >>, tls_indices_ |-> << >>]

\* the host's own mappings are there before the loader runs
InitProc ==
    [regions |-> [b \in {HostLoaded[i].dlpi_addr : i \in DOMAIN HostLoaded} |->
                     [size |-> PageSize, path |-> PathLibC, mapped |-> TRUE,
                      unmaps |-> 0, host |-> TRUE]],
     mem |-> << >>, next_region |-> 2, next_img |-> 1,
     tindex |-> << >>, next_ti |-> 1, blocks |-> << >>, next_block |-> 1,
     host_symbols |-> HostSymbols, host_loaded |-> HostLoaded]

InitTlsManager ==
    [modules_ |-> [i \in 0 .. MAX_TLS_MODULES - 1 |-> NoModule],
     generation_ |-> 0, static_size_ |-> 0, static_align_max_ |-> 1]

InitBacktrace ==
    [libs_ |-> [i \in 0 .. MAX_CUSTOM_LIBS - 1 |-> NoLib], frames |-> {}]

InitHist ==
    [calls |-> << >>, released |-> {}, op |-> "none", arg |-> NoPath, fault |-> "none",
     ret |-> FALSE, name |-> "", found |-> NoLookup,
     was_loaded |-> FALSE, first_region |-> 2, nloads |-> 0]

Init ==
    /\ fs = FileSystem
    /\ so = [lib_path_ |-> NoPath, image_ |-> 0, alive |-> TRUE]
    /\ lk = InitLinker
    /\ proc = InitProc
    /\ tlsm = InitTlsManager
    /\ bt = InitBacktrace
    /\ thr = [t \in {"main"} |-> [block |-> 0]]
    /\ hist = InitHist

Next ==
    \/ \E p \in LoadPaths : \E f \in FailChoices(p), d \in DanglingChoices : Load(p, f, d)
    \/ Unload
    \/ AbandonLib
    \/ Destruct

Spec == Init /\ [][Next]_vars

\* ------------------------------------------------- properties of the runs
\* how often the routine `what` was called for image id
Count(what, id) ==
    Cardinality({i \in DOMAIN hist.calls : hist.calls[i][1] = what /\ hist.calls[i][2] = id})

\* the images created so far
ImageIds == 1 .. proc.next_img - 1

\* the regions mapped since the last load began
SessionRegions == {b \in DOMAIN proc.regions : b >= RegionBase(hist.first_region)}

\* the last call was a load that found no library loaded and returned false
LoadFailedReturn == hist.op = "load" /\ ~hist.was_loaded /\ ~hist.ret

\* the last call tore a loaded library down through Linker::destroy
DestroyReturn == hist.op \in {"unload", "destruct"} /\ hist.was_loaded

\* C1: for every image, under every sequence of load, unload and destruction of
\* the handle (failed links torn down by destroy included), its destructors
\* are invoked once for each time its constructors were invoked, and never
\* when its constructors were not run.
C1_DestructorsOncePerConstructor ==
    \A id \in ImageIds :
        /\ Count("callDestructors", id) <= Count("callConstructors", id)
        /\ (\E r \in hist.released : r.id = id /\ r.how = "destroy")
              => Count("callDestructors", id) = Count("callConstructors", id)

\* C2: after abandon() returns, the process is as destroy() would leave it,
\* destructors aside: no backtrace registration of the linker's images, no
\* TlsIndex in the pool, no TLS segment of its images, and the main mapping and
\* every mapping of a manually loaded dependency unmapped.
C2_AbandonReleasesAsDestroy ==
    \A r \in hist.released :
        r.how = "abandon" =>
            /\ \A i \in DOMAIN bt.libs_ : ~(bt.libs_[i].in_use /\ bt.libs_[i].image = r.id)
            /\ \A i \in DOMAIN tlsm.modules_ :
                   ~(tlsm.modules_[i].module_id # 0 /\ tlsm.modules_[i].owner = r.id)
            /\ (hist.op = "abandon" /\ hist.ret) => proc.tindex = << >>
            /\ r.manual => ~proc.regions[r.base].mapped

\* C3: after destroy() returns, reached by unload() or by a failed link, the
\* main mapping and the mapping of every manually loaded dependency have been
\* unmapped exactly once, no region the linker mapped is left mapped, and the
\* mappings of host-adopted dependencies are never unmapped.
C3_DestroyUnmapsOnce ==
    /\ \A r \in hist.released :
          r.how = "destroy" =>
              IF r.manual
              THEN ~proc.regions[r.base].mapped /\ proc.regions[r.base].unmaps = 1
              ELSE proc.regions[r.base].mapped /\ proc.regions[r.base].unmaps = 0
    /\ (DestroyReturn \/ LoadFailedReturn) =>
          \A b \in SessionRegions :
              ~proc.regions[b].mapped /\ proc.regions[b].unmaps = 1
    /\ \A b \in DOMAIN proc.regions :
          proc.regions[b].host => proc.regions[b].mapped /\ proc.regions[b].unmaps = 0

\* an unload() has returned that released a main image, two dependencies the
\* linker mapped and one it adopted from the host
C3_Witness ==
    /\ hist.op = "unload" /\ hist.ret
    /\ Cardinality({r \in hist.released : r.how = "destroy" /\ r.manual}) >= 3
    /\ \E r \in hist.released : r.how = "destroy" /\ ~r.manual

\* C4: whenever load returns false (file missing or unreadable, header
\* invalid, reservation or segment mmap failure, dependency mapping failure
\* during link), isLoaded() is false, every region mapped during the call is
\* unmapped, and no TLS segment and no backtrace entry is left registered.
C4_FailedLoadLeavesNothing ==
    LoadFailedReturn =>
        /\ ~IsLoaded(so)
        /\ \A b \in SessionRegions : ~proc.regions[b].mapped
        /\ \A i \in DOMAIN tlsm.modules_ : tlsm.modules_[i].module_id = 0
        /\ \A i \in DOMAIN bt.libs_ : ~bt.libs_[i].in_use
        /\ bt.frames = {}

\* a load has returned false after the main image and a dependency were mapped
C4_Witness ==
    /\ LoadFailedReturn
    /\ hist.fault \in {"reserve", "segment", "read", "open"}
    /\ Cardinality(SessionRegions) >= 2

\* C5: load() while a library is loaded returns false and leaves path(), the
\* image, its mappings, its TLS registrations and what getSymbol answers as
\* they were; unload() and abandon() while none is loaded return false and
\* change nothing.
C5_OneLibraryPerHandle ==
    [][/\ (IsLoaded(so) /\ hist'.op = "load")
             => /\ ~hist'.ret
                /\ UNCHANGED <<so, lk, proc, tlsm, bt, thr>>
                /\ \A n \in {"foo", "plug_fn", "bar", "nosuch"} :
                       GetSymbol(so', lk', n) = GetSymbol(so, lk, n)
       /\ (~IsLoaded(so) /\ hist'.op \in {"unload", "abandon"})
             => /\ ~hist'.ret
                /\ UNCHANGED <<so, lk, proc, tlsm, bt, thr>>]_vars

\* a load was refused while app.so was loaded and answers getSymbol("foo")
C5_Witness ==
    /\ hist.op = "load" /\ hist.was_loaded /\ ~hist.ret
    /\ so.lib_path_ = PathApp
    /\ GetSymbol(so, lk, "foo") # 0
    /\ hist.arg = PathPlug

\* C6: after destroy() or abandon() the symbol cache holds no entry, positive
\* or negative, so that no relocation of a library loaded next is resolved to
\* an address or image recorded while the previous one was loaded.
C6_CacheClearedOnTeardown ==
    /\ (hist.op \in {"unload", "abandon", "destruct"} /\ hist.was_loaded)
          => lk.symbol_cache_ = << >>
    /\ \A n \in DOMAIN lk.symbol_cache_ :
          lk.symbol_cache_[n].image # 0
              => \E im \in LiveImages(lk) : im.id = lk.symbol_cache_[n].image

\* the symbolic relocations of image img whose symbol no loaded image defines
\* and the host does not know
Unresolved(img) ==
    {i \in DOMAIN FileOf(img).rela :
        /\ FileOf(img).rela[i].r_type \in SymbolicTypes
        /\ ~Valid(FindSymbol(lk, FileOf(img).dynsym[FileOf(img).rela[i].r_sym + 1].st_name))}

\* the images the linker mapped and relocates itself
Relocated ==
    {lk.main_image_} \cup
    {lk.deps_[i].image : i \in {j \in DOMAIN lk.deps_ : lk.deps_[j].is_manual_load}}

\* C8: a symbolic relocation whose name no loaded image defines and the host
\* fallback does not find leaves its target word as the file has it, and
\* link() and load() still return true.
C8_UnresolvedLeftUnchanged ==
    /\ IsLoaded(so) =>
          \A img \in Relocated : \A i \in Unresolved(img) :
              proc.mem[img.base_ - img.bias_ + FileOf(img).rela[i].r_offset]
                  = FileOf(img).words[FileOf(img).rela[i].r_offset]
    /\ (hist.op = "load" /\ ~hist.was_loaded /\ hist.fault = "none"
            /\ hist.arg \in {PathApp, PathPlug}) => hist.ret

\* ------------------------------------------------ relocated words (C11)
\* a runs inside a region that is mapped now, or is an address the host's
\* dlsym answers, or one of the loader's own hook functions
RuntimeAddress(a) ==
    \/ \E b \in DOMAIN proc.regions :
          proc.regions[b].mapped /\ b <= a /\ a < b + proc.regions[b].size
    \/ a \in Range(HostSymbols) \cup {CustomDlIteratePhdrAddr, CustomDladdrAddr}

\* the word of image img at file offset off, as memory has it now
WordAt(img, off) == proc.mem[img.base_ - img.bias_ + off]

\* the GOT and PLT slots of img: its GLOB_DAT and JUMP_SLOT relocations
GotPlt(img) ==
    {i \in DOMAIN FileOf(img).rela :
        FileOf(img).rela[i].r_type \in {R_AARCH64_GLOB_DAT, R_AARCH64_JUMP_SLOT}}

\* the positions below 63 of the bits set in bitmap, counted from bit on
RECURSIVE BitsOf(_, _)
BitsOf(bitmap, bit) ==
    IF bitmap = 0 \/ bit >= 63 THEN {}
    ELSE (IF bitmap % 2 = 1 THEN {bit} ELSE {}) \cup BitsOf(bitmap \div 2, bit + 1)

\* the file offsets a DT_RELR table names, from entry i on
RECURSIVE RelrOffsets(_, _, _)
RelrOffsets(relr, i, base_offset) ==
    IF i > Len(relr) THEN {}
    ELSE IF relr[i] % 2 = 0
    THEN {relr[i]} \cup RelrOffsets(relr, i + 1, relr[i] + 8)
    ELSE {base_offset + 8 * bit : bit \in BitsOf(relr[i] \div 2, 0)}
         \cup RelrOffsets(relr, i + 1, base_offset + 63 * 8)

\* no image that is gone ever ran constructors: the link that loaded the
\* library began with an empty symbol cache
FirstLink ==
    \A i \in DOMAIN hist.calls :
        hist.calls[i][1] = "callConstructors"
            => \E im \in LiveImages(lk) : im.id = hist.calls[i][2]

LiveIds == {im.id : im \in LiveImages(lk)}

\* the images link() constructs, in the order the claim gives: the manually
\* loaded dependencies by position in deps_, then the main image
LinkOrder ==
    [i \in DOMAIN SelectSeq(lk.deps_, LAMBDA d : d.is_manual_load) |->
        SelectSeq(lk.deps_, LAMBDA d : d.is_manual_load)[i].image] \o <<lk.main_image_>>

\* the initialisation functions of one image: DT_INIT, then DT_INIT_ARRAY
\* from first to last
InitCalls(img) ==
    (IF FileOf(img).has_init THEN << <<"DT_INIT", img.id, 0>> >> ELSE << >>)
    \o [k \in 1 .. FileOf(img).init_array_count |-> <<"DT_INIT_ARRAY", img.id, k - 1>>]

RECURSIVE ExpectedInitCalls(_, _)
ExpectedInitCalls(order, i) ==
    IF i > Len(order) THEN << >>
    ELSE InitCalls(order[i]) \o ExpectedInitCalls(order, i + 1)

\* the images adopted from the host, now or earlier
AdoptedIds ==
    {lk.deps_[i].image.id : i \in {j \in DOMAIN lk.deps_ : ~lk.deps_[j].is_manual_load}}
    \cup {r.id : r \in {x \in hist.released : ~x.manual}}

\* C12: link() invokes constructors only for manually loaded images: every
\* manually loaded dependency in load order, then the main image; within one
\* image DT_INIT first, then DT_INIT_ARRAY from first to last; an image
\* adopted from the host never has a constructor invoked.
C12_ConstructorOrder ==
    /\ IsLoaded(so) =>
          SelectSeq(hist.calls, LAMBDA c : c[1] \in {"DT_INIT", "DT_INIT_ARRAY"}
                                              /\ c[2] \in LiveIds)
              = ExpectedInitCalls(LinkOrder, 1)
    /\ \A i \in DOMAIN hist.calls :
          hist.calls[i][1] \in {"callConstructors", "DT_INIT", "DT_INIT_ARRAY"}
              => hist.calls[i][2] \notin AdoptedIds

\* app.so is loaded with two dependencies the linker mapped and one adopted
\* from the host that has DT_INIT and DT_INIT_ARRAY
C12_Witness ==
    /\ IsLoaded(so) /\ so.lib_path_ = PathApp
    /\ Len(LinkOrder) = 3
    /\ Len(ExpectedInitCalls(LinkOrder, 1)) >= 3
    /\ \E i \in DOMAIN lk.deps_ :
          ~lk.deps_[i].is_manual_load /\ FileOf(lk.deps_[i].image).has_init

\* where the one call of routine what for image id stands in the history
Pos(what, id) == CHOOSE i \in DOMAIN hist.calls : hist.calls[i] = <<what, id, 0>>

\* the images that were constructed once and destructed once
Finished == {id \in ImageIds : Count("callConstructors", id) = 1
                                  /\ Count("callDestructors", id) = 1}

\* the termination functions of the image of file, in the order the claim
\* gives: DT_FINI_ARRAY from last to first, then DT_FINI
FiniCalls(id, file) ==
    [k \in 1 .. file.fini_array_count |-> <<"DT_FINI_ARRAY", id, file.fini_array_count - k>>]
    \o (IF file.has_fini THEN << <<"DT_FINI", id, 0>> >> ELSE << >>)

\* C13: destroy() invokes destructors in the reverse of the order in which
\* link() invoked the constructors: of two images constructed in one link the
\* one constructed later is destructed first (so the main image first, then
\* the dependencies in reverse load order), and within one image the
\* DT_FINI_ARRAY entries run from last to first, then DT_FINI.
C13_DestructorOrder ==
    /\ \A a \in Finished : \A b \in Finished \ {a} :
          (Pos("callConstructors", a) < Pos("callConstructors", b)
                /\ Pos("callConstructors", b) < Pos("callDestructors", a))
              => Pos("callDestructors", b) < Pos("callDestructors", a)
    /\ \A r \in hist.released :
          (r.how = "destroy" /\ Count("callDestructors", r.id) = 1)
              => SelectSeq(hist.calls, LAMBDA c : c[1] \in {"DT_FINI_ARRAY", "DT_FINI"}
                                                     /\ c[2] = r.id)
                     = FiniCalls(r.id, fs[proc.regions[r.base].path])

\* an unload() has returned after which three images constructed in one link
\* have been destructed, one of them with two DT_FINI_ARRAY entries and DT_FINI
C13_Witness ==
    /\ DestroyReturn /\ hist.op = "unload"
    /\ Cardinality(Finished) >= 3
    /\ \E r \in hist.released :
          /\ r.id \in Finished
          /\ fs[proc.regions[r.base].path].fini_array_count = 2
          /\ fs[proc.regions[r.base].path].has_fini

\* ------------------------------------------- symbol lookup over any images
\* The linker holds a main image and MaxSymImages - 1 dependencies; each may
\* define the symbol "s" with any binding, or not at all.
SymFiles == <<"s1.so", "s2.so", "s3.so", "s4.so", "s5.so", "s6.so">>

SymPath(i) == <<"/data/local/tmp/", SymFiles[i]>>

\* how image i binds "s": -1 is no definition; a global or weak definition is
\* exported through .dynsym, a local one stands in .symtab only
SymBinds == {-1, STB_LOCAL, STB_GLOBAL, STB_WEAK}

SymValue(i) == 256 + 16 * i

SymFile(i, bind) ==
    [valid |-> TRUE, load_size |-> PageSize, min_vaddr |-> 0, bias |-> 0,
     needed |-> << >>, tls |-> NoTls, has_hash |-> TRUE,
     dynsym |-> << NullSym >> \o
                (IF bind \in {STB_GLOBAL, STB_WEAK}
                 THEN << Sym("s", SymValue(i), 1, bind, STT_FUNC) >> ELSE << >>),
     symtab |-> << NullSym >> \o
                (IF bind = -1 THEN << >> ELSE << Sym("s", SymValue(i), 1, bind, STT_FUNC) >>),
     rela |-> << >>, relr |-> << >>, words |-> << >>,
     has_init |-> FALSE, init_array_count |-> 0,
     has_fini |-> FALSE, fini_array_count |-> 0, eh_frame |-> 0]

SymImage(i) ==
    [id |-> i, path_ |-> SymPath(i), base_ |-> RegionBase(i + 1), bias_ |-> 0,
     tls_mod_id_ |-> 0]

SymFileSystem(binds) ==
    [p \in {SymPath(i) : i \in 1 .. MaxSymImages} |->
        SymFile(CHOOSE i \in 1 .. MaxSymImages : SymPath(i) = p,
                binds[CHOOSE i \in 1 .. MaxSymImages : SymPath(i) = p])]

\* the linker once the images are loaded: image 1 is the main image, the
\* others its dependencies in load order
SymLinker ==
    [InitLinker EXCEPT
        !.main_image_ = SymImage(1),
        !.main_map_size_ = PageSize,
        !.is_linked_ = TRUE,
        !.deps_ = [i \in 1 .. MaxSymImages - 1 |->
                      [image |-> SymImage(i + 1), map_base |-> RegionBase(i + 2),
                       map_size |-> PageSize, is_manual_load |-> TRUE]]]

InitSym ==
    /\ fs \in {SymFileSystem(binds) : binds \in [1 .. MaxSymImages -> SymBinds]}
    /\ so = [lib_path_ |-> SymPath(1), image_ |-> 1, alive |-> TRUE]
    /\ lk = SymLinker
    /\ proc = [InitProc EXCEPT !.next_img = MaxSymImages + 1,
                               !.next_region = MaxSymImages + 2]
    /\ tlsm = InitTlsManager
    /\ bt = InitBacktrace
    /\ thr = [t \in {"main"} |-> [block |-> 0]]
    /\ hist = InitHist

\* one call of Linker::findSymbol(name)
FindSymbolCall(name) ==
    /\ hist' = [hist EXCEPT !.op = "findSymbol", !.name = name,
                            !.found = FindSymbol(lk, name)]
    /\ UNCHANGED <<fs, so, lk, proc, tlsm, bt, thr>>

NextSym == \E name \in {"s", "hostfn", "nosuch"} : FindSymbolCall(name)

SpecSym == InitSym /\ [][NextSym]_vars

\* the images, by their place in the search order, that define "s" with
\* binding bind
Defining(bind) ==
    {i \in 1 .. MaxSymImages :
        \E tab \in {fs[SymPath(i)].dynsym, fs[SymPath(i)].symtab} :
            \E k \in DOMAIN tab :
                /\ tab[k].st_name = "s"
                /\ tab[k].st_shndx # SHN_UNDEF
                /\ tab[k].st_bind = bind}

\* C7: if a name has a global and a weak definition among the loaded images,
\* findSymbol returns the global one wherever it stands in the load order; if
\* all its definitions are weak, it returns that of the first image in search
\* order (main, then the dependencies in load order).
C7_WeakPreference ==
    (hist.op = "findSymbol" /\ hist.name = "s") =>
        /\ (Defining(STB_GLOBAL) # {} /\ Defining(STB_WEAK) # {})
              => /\ hist.found.bind = STB_GLOBAL
                 /\ hist.found.image = Min(Defining(STB_GLOBAL))
                 /\ hist.found.address
                       = SymImage(hist.found.image).base_ + SymValue(hist.found.image)
        /\ (Defining(STB_WEAK) # {} /\ Defining(STB_GLOBAL) = {} /\ Defining(STB_LOCAL) = {})
              => /\ hist.found.bind = STB_WEAK
                 /\ hist.found.image = Min(Defining(STB_WEAK))
                 /\ hist.found.address
                       = SymImage(hist.found.image).base_ + SymValue(hist.found.image)

\* C23: when no image defines the name global and some image defines it
\* weak, findSymbol returns the weak definition of the first such image in
\* search order, also when another image holds a local symbol of that name
\* in its .symtab.
C23_WeakBeforeLocal ==
    (hist.op = "findSymbol" /\ hist.name = "s"
        /\ Defining(STB_GLOBAL) = {} /\ Defining(STB_WEAK) # {})
      => /\ hist.found.bind = STB_WEAK
         /\ hist.found.image = Min(Defining(STB_WEAK))

\* findSymbol("s") has answered with the global definition of the image loaded
\* last while the main image defines "s" weak
C7_Witness ==
    /\ hist.op = "findSymbol" /\ hist.name = "s"
    /\ 1 \in Defining(STB_WEAK)
    /\ Defining(STB_GLOBAL) = {MaxSymImages}
    /\ hist.found.image = MaxSymImages

\* -------------------------------------------------- the TLS thread test
\* test_lib.so is loaded; NumThreads threads run thread_func concurrently. The
\* library reaches tls_counter and tls_buffer through __tls_get_addr(ti), ti
\* being the TlsIndex its descriptor in the GOT holds.
ThreadNames == <<"t1", "t2", "t3", "t4">>

Threads == {ThreadNames[i] : i \in 1 .. NumThreads}

\* the thread_id thread_func is given; "Thread-<id>" is what it writes
ThreadId(t) == CHOOSE i \in 1 .. NumThreads : ThreadNames[i] = t

PathTestLib == <<"/data/local/tmp/", "test_lib.so">>

\* test_lib.so: tls_counter at offset 0 and tls_buffer at offset 8 of a
\* zero-initialised TLS segment, one TLSDESC descriptor for each in the GOT
GotCounter == 4096

GotBuffer == 4112

FileTestLib ==
    [valid |-> TRUE, load_size |-> 2 * PageSize, min_vaddr |-> 0, bias |-> 0,
     needed |-> << >>, tls |-> Tls(8, 72, 0), has_hash |-> TRUE,
     dynsym |-> << NullSym,
                   Sym("tls_counter", 0, 1, STB_GLOBAL, STT_TLS),
                   Sym("tls_buffer", 8, 1, STB_GLOBAL, STT_TLS),
                   Sym("tls_increment", 512, 1, STB_GLOBAL, STT_FUNC),
                   Sym("tls_set_buffer", 576, 1, STB_GLOBAL, STT_FUNC),
                   Sym("tls_get_buffer", 640, 1, STB_GLOBAL, STT_FUNC) >>,
     symtab |-> << NullSym >>,
     relr |-> << >>,
     rela |-> << Rela(R_AARCH64_TLSDESC, 1, GotCounter, 0),
                 Rela(R_AARCH64_TLSDESC, 2, GotBuffer, 0) >>,
     words |-> (GotCounter :> 0) @@ (GotCounter + 8 :> 0)
                 @@ (GotBuffer :> 0) @@ (GotBuffer + 8 :> 0),
     has_init |-> FALSE, init_array_count |-> 1,
     has_fini |-> FALSE, fini_array_count |-> 1, eh_frame |-> 1024]

\* a thread before it has run: pc is where it stands in thread_func, i counts
\* its tls_increment calls, addr and reg are its registers, ret is what the
\* last tls_increment returned, seen what tls_get_buffer let it read
NewThread(t) ==
    [block |-> 0, pc |-> IF t = "main" THEN "join" ELSE "start", i |-> 0,
     addr |-> 0, reg |-> 0, ret |-> 0, seen |-> 0]


InitTls ==
    /\ fs = (PathTestLib :> FileTestLib)
    /\ so = [lib_path_ |-> NoPath, image_ |-> 0, alive |-> TRUE]
    /\ lk = InitLinker
    /\ proc = InitProc
    /\ tlsm = InitTlsManager
    /\ bt = InitBacktrace
    /\ thr = [t \in {"main"} \cup Threads |-> NewThread(t)]
    /\ hist = InitHist

\* main(): loader.load("test_lib.so"), after which it creates the threads
TestLoad == ~IsLoaded(so) /\ Load(PathTestLib, NoFail, 0)

\* __tls_get_addr(ti) on thread t: [w, addr]
TlsGetAddr(w, t, ti) == GetAddress(w, t, ti)

\* the TlsIndex of the descriptor at GOT offset got of the loaded library
TiAt(got) ==
    LET ti == proc.tindex[MemRead(World, lk.main_image_.base_ + got + 8)]
    IN  Ti(ti.module, ti.offset)

\* the block that holds address a
BlockOf(p, a) ==
    {b \in DOMAIN p.blocks : b <= a /\ a < b + p.blocks[b].size}

\* a load from and a store to thread-local storage
CellRead(p, a) ==
    IF BlockOf(p, a) = {} THEN 0
    ELSE LET b == CHOOSE x \in BlockOf(p, a) : TRUE IN p.blocks[b].data[a - b]

CellWrite(p, a, v) ==
    IF BlockOf(p, a) = {} THEN p
    ELSE LET b == CHOOSE x \in BlockOf(p, a) : TRUE
         IN  [p EXCEPT !.blocks[b].data[a - b] = v]

\* thread t calls __tls_get_addr for the variable at got and goes on at pc
TlsAddrStep(t, got, pc) ==
    LET a == TlsGetAddr(World, t, TiAt(got))
    IN  /\ proc' = a.w.proc
        /\ thr' = [a.w.thr EXCEPT ![t].addr = a.addr, ![t].pc = pc]
        /\ UNCHANGED <<fs, so, lk, tlsm, bt, hist>>

\* thread_func: the three getSymbol calls and their test
ThreadStart(t) ==
    /\ IsLoaded(so)
    /\ thr[t].pc = "start"
    /\ thr' = [thr EXCEPT ![t].pc =
                  IF \A n \in {"tls_increment", "tls_set_buffer", "tls_get_buffer"} :
                         GetSymbol(so, lk, n) # 0
                  THEN "set_addr" ELSE "done"]
    /\ UNCHANGED <<fs, so, lk, proc, tlsm, bt, hist>>

\* tls_set_buffer(buf): the address of tls_buffer, then the copy into it
SetBufferAddr(t) == thr[t].pc = "set_addr" /\ TlsAddrStep(t, GotBuffer, "set_store")

SetBufferStore(t) ==
    /\ thr[t].pc = "set_store"
    /\ proc' = CellWrite(proc, thr[t].addr, ThreadId(t))
    /\ thr' = [thr EXCEPT ![t].pc = "inc_addr"]
    /\ UNCHANGED <<fs, so, lk, tlsm, bt, hist>>

\* tls_increment(): the address of tls_counter, its load, the store of the
\* incremented value, which is also what the call returns
IncrementAddr(t) == thr[t].pc = "inc_addr" /\ TlsAddrStep(t, GotCounter, "inc_load")

IncrementLoad(t) ==
    /\ thr[t].pc = "inc_load"
    /\ thr' = [thr EXCEPT ![t].reg = CellRead(proc, thr[t].addr), ![t].pc = "inc_store"]
    /\ UNCHANGED <<fs, so, lk, proc, tlsm, bt, hist>>

IncrementStore(t) ==
    /\ thr[t].pc = "inc_store"
    /\ proc' = CellWrite(proc, thr[t].addr, thr[t].reg + 1)
    /\ thr' = [thr EXCEPT ![t].ret = thr[t].reg + 1, ![t].i = @ + 1,
                          ![t].pc = IF thr[t].i + 1 < 3 THEN "inc_addr" ELSE "get_addr"]
    /\ UNCHANGED <<fs, so, lk, tlsm, bt, hist>>

\* tls_get_buffer(), and the read of what it returns
GetBufferAddr(t) == thr[t].pc = "get_addr" /\ TlsAddrStep(t, GotBuffer, "get_read")

GetBufferRead(t) ==
    /\ thr[t].pc = "get_read"
    /\ thr' = [thr EXCEPT ![t].seen = CellRead(proc, thr[t].addr), ![t].pc = "done"]
    /\ UNCHANGED <<fs, so, lk, proc, tlsm, bt, hist>>

NextTls ==
    \/ TestLoad
    \/ \E t \in Threads :
        \/ ThreadStart(t)
        \/ SetBufferAddr(t)
        \/ SetBufferStore(t)
        \/ IncrementAddr(t)
        \/ IncrementLoad(t)
        \/ IncrementStore(t)
        \/ GetBufferAddr(t)
        \/ GetBufferRead(t)

SpecTls == InitTls /\ [][NextTls]_vars

\* C9: for two distinct threads __tls_get_addr returns addresses inside
\* distinct per-thread blocks, so that under every interleaving a thread that
\* has incremented three times observes the counter value 3 and reads back the
\* buffer it wrote itself.
C9_ThreadIsolation ==
    /\ \A t \in Threads :
          thr[t].addr # 0 =>
              /\ thr[t].block # 0
              /\ BlockOf(proc, thr[t].addr) = {thr[t].block}
    /\ \A t, u \in Threads :
          (t # u /\ thr[t].block # 0 /\ thr[u].block # 0) =>
              \/ thr[t].block + proc.blocks[thr[t].block].size <= thr[u].block
              \/ thr[u].block + proc.blocks[thr[u].block].size <= thr[t].block
    /\ \A t \in Threads :
          thr[t].pc = "done" => thr[t].i = 3 /\ thr[t].ret = 3 /\ thr[t].seen = ThreadId(t)

\* every thread has finished thread_func, having incremented three times
C9_Witness ==
    \A t \in Threads : thr[t].pc = "done" /\ thr[t].i = 3 /\ thr[t].block # 0

\* ------------------------------------- concurrent use of the TLS module table
\* NumRegThreads threads, each linking a library of its own through its own
\* SoLoader, are inside TlsManager::registerSegment at the same time, while
\* the main thread calls getAddress. TlsManager holds no lock, so the
\* statements of the calls interleave.
RegThreads == {ThreadNames[i] : i \in 1 .. NumRegThreads}

RegFiles == <<"r1.so", "r2.so", "r3.so", "r4.so">>

RegPath(i) == <<"/data/local/tmp/", RegFiles[i]>>

RegFile(i) ==
    [valid |-> TRUE, load_size |-> 2 * PageSize, min_vaddr |-> 0, bias |-> 0,
     needed |-> << >>, tls |-> Tls(8, 16, 8), has_hash |-> TRUE,
     dynsym |-> << NullSym >>, symtab |-> << NullSym >>, rela |-> << >>,
     relr |-> << >>, words |-> << >>,
     has_init |-> FALSE, init_array_count |-> 0,
     has_fini |-> FALSE, fini_array_count |-> 0, eh_frame |-> 0]

\* the image thread t is linking
RegImage(t) ==
    LET i == CHOOSE k \in 1 .. NumRegThreads : ThreadNames[k] = t
    IN  [id |-> i, path_ |-> RegPath(i), base_ |-> RegionBase(i + 1), bias_ |-> 0,
         tls_mod_id_ |-> 0]

\* a thread about to call registerSegment(image); mod_id is the call's local
RegThread(t) ==
    [block |-> 0, pc |-> IF t = "main" THEN "read" ELSE "scan", mod_id |-> 0,
     image |-> IF t = "main" THEN NoImage ELSE RegImage(t)]

InitReg ==
    /\ fs = [p \in {RegPath(i) : i \in 1 .. NumRegThreads} |->
                RegFile(CHOOSE i \in 1 .. NumRegThreads : RegPath(i) = p)]
    /\ so = [lib_path_ |-> NoPath, image_ |-> 0, alive |-> TRUE]
    /\ lk = InitLinker
    /\ proc = [InitProc EXCEPT !.next_img = NumRegThreads + 1,
                               !.next_region = NumRegThreads + 2]
    /\ tlsm = InitTlsManager
    /\ bt = InitBacktrace
    /\ thr = [t \in {"main"} \cup RegThreads |-> RegThread(t)]
    /\ hist = [InitHist EXCEPT !.found = [module |-> 0, half |-> FALSE, addr |-> 0]]

\* registerSegment, the test for a TLS segment and the loop that looks for a
\* free slot
RegScan(t) ==
    /\ thr[t].pc = "scan"
    /\ thr' = [thr EXCEPT
                  ![t].mod_id = FreeSlot(tlsm.modules_),
                  ![t].pc = IF ~FileOf(thr[t].image).tls.present
                               \/ FreeSlot(tlsm.modules_) = 0
                            THEN "done" ELSE "write_id"]
    /\ UNCHANGED <<fs, so, lk, proc, tlsm, bt, hist>>

\* m.module_id = mod_id
RegWriteId(t) ==
    /\ thr[t].pc = "write_id"
    /\ tlsm' = [tlsm EXCEPT !.modules_[thr[t].mod_id].module_id = thr[t].mod_id]
    /\ thr' = [thr EXCEPT ![t].pc = "write_fields"]
    /\ UNCHANGED <<fs, so, lk, proc, bt, hist>>

\* m.align ... m.owner = image
RegWriteFields(t) ==
    LET seg == FileOf(thr[t].image).tls
        img == thr[t].image
    IN  /\ thr[t].pc = "write_fields"
        /\ tlsm' = [tlsm EXCEPT !.modules_[thr[t].mod_id] =
                       [@ EXCEPT !.align = IF seg.p_align # 0 THEN seg.p_align ELSE 1,
                                 !.memsz = seg.p_memsz,
                                 !.filesz = seg.p_filesz,
                                 !.init_image = Wrap64(img.base_ + seg.p_vaddr - img.bias_),
                                 !.owner = img.id]]
        /\ thr' = [thr EXCEPT ![t].pc = "align_size"]
        /\ UNCHANGED <<fs, so, lk, proc, bt, hist>>

\* static_size_ = (static_size_ + m.align - 1) & ~(m.align - 1)
RegAlignSize(t) ==
    /\ thr[t].pc = "align_size"
    /\ tlsm' = [tlsm EXCEPT !.static_size_ =
                   AlignMask(@, tlsm.modules_[thr[t].mod_id].align)]
    /\ thr' = [thr EXCEPT ![t].pc = "set_offset"]
    /\ UNCHANGED <<fs, so, lk, proc, bt, hist>>

\* m.offset = static_size_
RegSetOffset(t) ==
    /\ thr[t].pc = "set_offset"
    /\ tlsm' = [tlsm EXCEPT !.modules_[thr[t].mod_id].offset = tlsm.static_size_]
    /\ thr' = [thr EXCEPT ![t].pc = "add_size"]
    /\ UNCHANGED <<fs, so, lk, proc, bt, hist>>

\* static_size_ += m.memsz
RegAddSize(t) ==
    /\ thr[t].pc = "add_size"
    /\ tlsm' = [tlsm EXCEPT !.static_size_ =
                   Wrap64(@ + tlsm.modules_[thr[t].mod_id].memsz)]
    /\ thr' = [thr EXCEPT ![t].pc = "finish"]
    /\ UNCHANGED <<fs, so, lk, proc, bt, hist>>

\* the update of static_align_max_ and image->setTlsModuleId(mod_id)
RegFinish(t) ==
    /\ thr[t].pc = "finish"
    /\ tlsm' = [tlsm EXCEPT !.static_align_max_ =
                   IF tlsm.modules_[thr[t].mod_id].align > @
                   THEN tlsm.modules_[thr[t].mod_id].align ELSE @]
    /\ thr' = [thr EXCEPT ![t].image.tls_mod_id_ = thr[t].mod_id, ![t].pc = "done"]
    /\ UNCHANGED <<fs, so, lk, proc, bt, hist>>

\* unregisterSegment(image), when the thread's loader unloads
RegUnregister(t) ==
    /\ thr[t].pc = "done"
    /\ tlsm' = UnregisterSegment(World, thr[t].image.id).tlsm
    /\ thr' = [thr EXCEPT ![t].pc = "unregistered"]
    /\ UNCHANGED <<fs, so, lk, proc, bt, hist>>

\* the slot of module mod is being written by a registerSegment under way
HalfWritten(mod) ==
    \E t \in RegThreads :
        thr[t].mod_id = mod /\ thr[t].pc \in {"write_fields", "align_size", "set_offset"}

\* the result of a getAddress on the main thread for module mod
RegRead(a, mod) ==
    /\ proc' = a.w.proc
    /\ thr' = a.w.thr
    /\ hist' = [hist EXCEPT !.op = "getAddress",
                            !.found = [module |-> mod, addr |-> a.addr,
                                       half |-> a.addr # 0 /\ HalfWritten(mod)]]
    /\ UNCHANGED <<fs, so, lk, tlsm, bt>>

\* getAddress(ti) on the main thread, ti naming module mod at offset 0
RegGetAddress(mod) == RegRead(GetAddress(World, "main", Ti(mod, 0)), mod)

NextReg ==
    \/ \E t \in RegThreads :
          \/ RegScan(t)
          \/ RegWriteId(t)
          \/ RegWriteFields(t)
          \/ RegAlignSize(t)
          \/ RegSetOffset(t)
          \/ RegAddSize(t)
          \/ RegFinish(t)
          \/ RegUnregister(t)
    \/ \E mod \in 1 .. NumRegThreads : RegGetAddress(mod)

SpecReg == InitReg /\ [][NextReg]_vars

\* the threads that have completed their registerSegment
Registered == {t \in RegThreads : thr[t].pc = "done"}

\* C10: the TLS module table is written and read under its mutex, so that two
\* threads in registerSegment at once never give their images the same module
\* id or overlapping static offsets, and a getAddress at the same time never
\* sees a module slot that is written in part.
C10_TableAccessSerialised ==
    /\ \A t, u \in RegThreads :
          (t # u /\ thr[t].mod_id # 0 /\ thr[u].mod_id # 0
               /\ thr[t].pc # "unregistered" /\ thr[u].pc # "unregistered")
             => thr[t].mod_id # thr[u].mod_id
    /\ \A t, u \in Registered :
          t # u =>
              LET m == tlsm.modules_[thr[t].image.tls_mod_id_]
                  n == tlsm.modules_[thr[u].image.tls_mod_id_]
              IN  m.offset + m.memsz <= n.offset \/ n.offset + n.memsz <= m.offset
    /\ ~hist.found.half

\* the module slots a step assigns
NewSegments ==
    {s \in 1 .. MAX_TLS_MODULES - 1 :
        tlsm.modules_[s].module_id = 0 /\ tlsm'.modules_[s].module_id # 0}

\* C15 as stated: the generation counter advances once for every TLS segment
\* that a step registers, so a link() that registers k segments advances it
\* by k.
C15_BumpPerSegment ==
    [][tlsm'.generation_ >= tlsm.generation_ + Cardinality(NewSegments)]_vars

\* C15: the generation counter never decreases; it advances by exactly one
\* in each link() that gets past dependency loading, whatever the number of
\* TLS segments that link() registers, and in no other step.
C15_BumpPerLink ==
    [][tlsm'.generation_ =
          tlsm.generation_
             + (IF hist'.nloads = hist.nloads + 1 /\ hist'.ret THEN 1 ELSE 0)]_vars

\* a first successful link() has registered three TLS segments and the
\* counter stands at one
C15_Witness ==
    /\ hist.op = "load" /\ hist.ret /\ IsLoaded(so)
    /\ Cardinality({s \in 1 .. MAX_TLS_MODULES - 1 : tlsm.modules_[s].module_id # 0}) = 3
    /\ tlsm.generation_ = 1

\* ---------------------------------------------------------------------------
\* the TLS manager under sequential registerSegment, unregisterSegment,
\* dynamic_tls_resolver and __tls_get_addr calls

MaxSegCalls == 3

SegNames == <<"g1.so", "g2.so", "g3.so">>

\* the PT_TLS segment (p_align, p_memsz, p_filesz) of each image
SegTls == << Tls(8, 16, 8), Tls(0, 3, 3), Tls(32, 8, 0) >>

NumSegImages == Len(SegTls)

SegPath(i) == <<"/data/local/tmp/", SegNames[i]>>

SegFile(i) == [RegFile(1) EXCEPT !.tls = SegTls[i]]

SegImage(i) ==
    [id |-> i, path_ |-> SegPath(i), base_ |-> RegionBase(i + 1), bias_ |-> 0,
     tls_mod_id_ |-> 0]

\* the TlsIndex arguments: null, an offset past a small module, a module
\* that may be registered late, a module id out of range
SegTis ==
    {NullTi, Ti(1, 8), Ti(2, 0), Ti(MAX_TLS_MODULES, 0)}

NoSegCall ==
    [thread |-> "main", ti |-> NullTi, addr |-> 0, base |-> 0, resolver |-> 0]

InitSeg ==
    /\ fs = [p \in {SegPath(i) : i \in 1 .. NumSegImages} |->
                SegFile(CHOOSE i \in 1 .. NumSegImages : SegPath(i) = p)]
    /\ so = [lib_path_ |-> NoPath, image_ |-> 0, alive |-> TRUE]
    /\ lk = InitLinker
    /\ proc = [InitProc EXCEPT !.next_img = NumSegImages + 1,
                               !.next_region = NumSegImages + 2]
    /\ tlsm = InitTlsManager
    /\ bt = InitBacktrace
    /\ thr = [t \in {"main"} |-> [block |-> 0]]
    /\ hist = [InitHist EXCEPT !.found = NoSegCall]

\* image i owns a module slot
SegRegistered(i) ==
    \E s \in 1 .. MAX_TLS_MODULES - 1 :
        tlsm.modules_[s].module_id # 0 /\ tlsm.modules_[s].owner = i

\* TlsManager::registerSegment(image)
SegRegister(i) ==
    /\ ~SegRegistered(i)
    /\ hist.nloads < MaxSegCalls
    /\ LET r == RegisterSegment(World, SegImage(i))
       IN  /\ tlsm' = r.w.tlsm
           /\ hist' = [hist EXCEPT !.op = "register", !.nloads = @ + 1,
                                   !.found = NoSegCall]
    /\ UNCHANGED <<fs, so, lk, proc, bt, thr>>

\* TlsManager::unregisterSegment(image)
SegUnregister(i) ==
    /\ SegRegistered(i)
    /\ tlsm' = UnregisterSegment(World, i).tlsm
    /\ hist' = [hist EXCEPT !.op = "unregister", !.found = NoSegCall]
    /\ UNCHANGED <<fs, so, lk, proc, bt, thr>>

\* a resolver that returns the address itself instead of the offset
DynamicTlsResolverAbsolute(w, t, ti) ==
    [w |-> GetAddress(w, t, ti).w, ret |-> GetAddress(w, t, ti).addr]

\* dynamic_tls_resolver(ti): the address less the base of the thread's block
DynamicTlsResolver(w, t, ti) ==
    LET addr == GetAddress(w, t, ti)
        block_base == GetAddress(addr.w, t, NullTi)
    IN  [w |-> block_base.w, ret |-> Wrap64(addr.addr - block_base.addr)]

\* the resolver, then getAddress(nullptr) and __tls_get_addr(ti), on thread t
SegResolve(t, ti) ==
    LET r == DynamicTlsResolver(World, t, ti)
    IN  /\ proc' = r.w.proc
        /\ thr' = r.w.thr
        /\ hist' = [hist EXCEPT
                      !.op = "resolve",
                      !.found = [NoSegCall EXCEPT
                                    !.thread = t, !.ti = ti, !.resolver = r.ret,
                                    !.base = GetAddress(r.w, t, NullTi).addr,
                                    !.addr = TlsGetAddr(r.w, t, ti).addr]]
        /\ UNCHANGED <<fs, so, lk, tlsm, bt>>

NextSeg ==
    \/ \E i \in 1 .. NumSegImages : SegRegister(i)
    \/ \E i \in 1 .. NumSegImages : SegUnregister(i)
    \/ \E ti \in SegTis : SegResolve("main", ti)

SpecSeg == InitSeg /\ [][NextSeg]_vars

\* the module slots in use
UsedSlots == {s \in 1 .. MAX_TLS_MODULES - 1 : tlsm.modules_[s].module_id # 0}

\* the module table is laid out without overlap, below static_size_
StaticLayout ==
    /\ tlsm.modules_[0].module_id = 0
    /\ \A s \in UsedSlots :
          LET m == tlsm.modules_[s]
          IN  /\ m.module_id = s
              /\ m.offset % m.align = 0
              /\ m.offset + m.memsz <= tlsm.static_size_
    /\ \A s, u \in UsedSlots :
          s # u =>
              LET m == tlsm.modules_[s]
                  n == tlsm.modules_[u]
              IN  m.offset + m.memsz <= n.offset \/ n.offset + n.memsz <= m.offset

\* a step keeps static_size_, keeps each used slot or frees it, and places a
\* new module at the running static_size_ rounded up to its alignment
LayoutStep ==
    /\ tlsm'.static_size_ >= tlsm.static_size_
    /\ \A s \in UsedSlots :
          tlsm'.modules_[s] = tlsm.modules_[s] \/ tlsm'.modules_[s] = NoModule
    /\ \A s \in 1 .. MAX_TLS_MODULES - 1 :
          (tlsm.modules_[s].module_id = 0 /\ tlsm'.modules_[s].module_id # 0) =>
              /\ tlsm'.modules_[s].offset >= tlsm.static_size_
              /\ tlsm'.modules_[s].offset < tlsm.static_size_ + tlsm'.modules_[s].align
              /\ tlsm'.static_size_ = tlsm'.modules_[s].offset + tlsm'.modules_[s].memsz

\* C14: under any sequence of registerSegment and unregisterSegment calls,
\* each registered module's offset is a multiple of its alignment and was
\* assigned from the running static_size_, static_size_ never decreases, the
\* ranges [offset, offset + memsz) of the modules registered together are
\* pairwise disjoint and below static_size_, slot 0 is never assigned, and no
\* slot is given to a second image while its owner is still registered.
C14_StaticLayout == [][StaticLayout /\ StaticLayout' /\ LayoutStep]_vars

\* two modules registered together, one of them in a slot that an earlier
\* owner gave up, so that the lower slot holds the higher offset
C14_Witness ==
    /\ \E s, u \in UsedSlots :
          /\ s < u
          /\ tlsm.modules_[s].offset > tlsm.modules_[u].offset
          /\ tlsm.modules_[s].align = 32
          /\ tlsm.modules_[s].offset > tlsm.modules_[u].offset + tlsm.modules_[u].memsz


C19_AddressInsideBlock ==
    (hist.op = "resolve" /\ hist.found.addr # 0) =>
        LET block == thr[hist.found.thread].block
        IN  /\ block # 0
            /\ block <= hist.found.addr
            /\ hist.found.addr < block + proc.blocks[block].size

\* ---------------------------------------------------------------------------
\* the three symbol lookups of one image: GNU hash, ELF hash, linear scan

\* a uint32_t as two 16-bit halves
U32(hi, lo) == [hi |-> hi, lo |-> lo]

Half == 65536

\* x ^ y on naturals
RECURSIVE BitXor(_, _)
BitXor(x, y) ==
    IF x = 0 THEN y
    ELSE IF y = 0 THEN x
    ELSE 2 * BitXor(x \div 2, y \div 2) + (IF x % 2 = y % 2 THEN 0 ELSE 1)

\* h % n for a uint32_t h
U32Mod(h, n) == ((h.hi % n) * (Half % n) + h.lo) % n

\* h >> k for a uint32_t h, 0 <= k < 32
U32Shr(h, k) ==
    IF k < 16
    THEN U32(h.hi \div (2 ^ k), (h.lo \div (2 ^ k)) + (h.hi % (2 ^ k)) * (2 ^ (16 - k)))
    ELSE U32(0, h.hi \div (2 ^ (k - 16)))

\* the bytes of the symbol names
Chars ==
    ("foo" :> <<102, 111, 111>>) @@ ("bar" :> <<98, 97, 114>>)
    @@ ("baz" :> <<98, 97, 122>>) @@ ("counter" :> <<99, 111, 117, 110, 116, 101, 114>>)
    @@ ("" :> << >>)

\* h = (h << 5) + h + c
RECURSIVE GnuHashFrom(_, _, _)
GnuHashFrom(h, chars, i) ==
    IF i > Len(chars) THEN h
    ELSE GnuHashFrom(U32((h.hi * 33 + (h.lo * 33 + chars[i]) \div Half) % Half,
                         (h.lo * 33 + chars[i]) % Half),
                     chars, i + 1)

gnuHash(name) == GnuHashFrom(U32(0, 5381), Chars[name], 1)

\* h = (h << 4) + c; g = h & 0xf0000000; if (g) h ^= g >> 24; h &= ~g
RECURSIVE ElfHashFrom(_, _, _)
ElfHashFrom(h, chars, i) ==
    IF i > Len(chars) THEN h
    ELSE LET lo == (h.lo * 16 + chars[i]) % Half
             hi == (h.hi * 16 + (h.lo * 16 + chars[i]) \div Half) % Half
             g == hi \div 4096
         IN  ElfHashFrom(U32(hi % 4096, BitXor(lo, g * 16)), chars, i + 1)

elfHash(name) == ElfHashFrom(U32(0, 0), Chars[name], 1)


\* a chain walk that takes the first defined entry of the bucket, whatever
\* its name
GnuChainWalkFirst(file, name, hash, sym_idx) ==
    IF sym_idx >= Len(file.dynsym) THEN [found |-> FALSE, sym |-> NullSym]
    ELSE [found |-> TRUE, sym |-> file.dynsym[sym_idx + 1]]

\* gnuHashLookup: the chain walk from sym_idx
RECURSIVE GnuChainWalk(_, _, _, _)
GnuChainWalk(file, name, hash, sym_idx) ==
    IF sym_idx >= Len(file.dynsym) THEN [found |-> FALSE, sym |-> NullSym]
    ELSE LET chain_val == file.gnu.chain[sym_idx - file.gnu.symndx]
             sym == file.dynsym[sym_idx + 1]
         IN  IF /\ chain_val.hi = hash.hi /\ chain_val.lo \div 2 = hash.lo \div 2
                /\ name = sym.st_name
                /\ sym.st_shndx # SHN_UNDEF
             THEN [found |-> TRUE, sym |-> sym]
             ELSE IF chain_val.lo % 2 = 1 THEN [found |-> FALSE, sym |-> NullSym]
             ELSE GnuChainWalk(file, name, hash, sym_idx + 1)

gnuHashLookup(file, name, hash) ==
    IF ~file.gnu.present \/ file.gnu.nbucket = 0 \/ Len(file.dynsym) = 0
    THEN [found |-> FALSE, sym |-> NullSym]
    ELSE LET bloom_word == file.gnu.bloom[U32Mod(U32Shr(hash, 6), file.gnu.bloom_size)]
             mask == {hash.lo % 64, U32Shr(hash, file.gnu.shift2).lo % 64}
             sym_idx == file.gnu.bucket[U32Mod(hash, file.gnu.nbucket)]
         IN  IF ~(mask \subseteq bloom_word) THEN [found |-> FALSE, sym |-> NullSym]
             ELSE IF sym_idx < file.gnu.symndx THEN [found |-> FALSE, sym |-> NullSym]
             ELSE GnuChainWalk(file, name, hash, sym_idx)

\* elfHashLookup: the chain walk from n
RECURSIVE ElfChainWalk(_, _, _)
ElfChainWalk(file, name, n) ==
    IF n = 0 THEN [found |-> FALSE, sym |-> NullSym]
    ELSE IF name = file.dynsym[n + 1].st_name /\ file.dynsym[n + 1].st_shndx # SHN_UNDEF
    THEN [found |-> TRUE, sym |-> file.dynsym[n + 1]]
    ELSE ElfChainWalk(file, name, file.hash.chain[n])

elfHashLookup(file, name, hash) ==
    IF ~file.hash.present \/ file.hash.nbucket = 0 \/ Len(file.dynsym) = 0
    THEN [found |-> FALSE, sym |-> NullSym]
    ELSE ElfChainWalk(file, name, file.hash.bucket[U32Mod(hash, file.hash.nbucket)])

\* findSymbolOffset over the three lookups, the first that answers
findSymbolOffset(file, name) ==
    IF gnuHashLookup(file, name, gnuHash(name)).found
    THEN gnuHashLookup(file, name, gnuHash(name))
    ELSE IF elfHashLookup(file, name, elfHash(name)).found
    THEN elfHashLookup(file, name, elfHash(name))
    ELSE LinearLookup(file, name)


NumHashNames == 3

HashNames == <<"foo", "bar", "baz", "counter">>

\* what an image does with a name: imports it, exports a function, exports
\* a TLS variable, exports a marker of size zero, or exports a function
\* while a static function of the same name sits in .symtab
SymKinds == {"undef", "func", "tls", "zero", "shadowed"}

\* the .dynsym entry of name i
KindSym(i, kind) ==
    IF kind = "undef" THEN Sym(HashNames[i], 0, SHN_UNDEF, STB_GLOBAL, STT_FUNC)
    ELSE IF kind = "tls" THEN Sym(HashNames[i], 256 * i, 1, STB_GLOBAL, STT_TLS)
    ELSE IF kind = "zero"
    THEN [Sym(HashNames[i], 256 * i, 1, STB_GLOBAL, STT_OBJECT) EXCEPT !.st_size = 0]
    ELSE Sym(HashNames[i], 256 * i, 1, STB_GLOBAL, STT_FUNC)

\* the static function that shadows name i in .symtab
LocalSym(i) == Sym(HashNames[i], 256 * i + 16, 1, STB_LOCAL, STT_FUNC)

\* the names of S as a sequence, by ascending key
RECURSIVE InOrder(_, _)
InOrder(S, key) ==
    IF S = {} THEN << >>
    ELSE LET m == CHOOSE x \in S : \A y \in S : key[x] <= key[y]
         IN  <<m>> \o InOrder(S \ {m}, key)

\* .dynsym as a static linker lays it out: the null entry, the imports, then
\* the exports grouped by GNU hash bucket
DynsymOf(kinds, nbucket) ==
    LET und == {i \in DOMAIN kinds : kinds[i] = "undef"}
        def == DOMAIN kinds \ und
        order == InOrder(und, [i \in und |-> i])
                    \o InOrder(def, [i \in def |->
                                       10 * U32Mod(gnuHash(HashNames[i]), nbucket) + i])
    IN  << NullSym >> \o [k \in 1 .. Len(order) |-> KindSym(order[k], kinds[order[k]])]

\* .gnu.hash of dynsym: header, bloom words (as sets of bits), buckets, chains
GnuTable(dynsym, nbucket, bloom_size, shift2) ==
    LET symndx == Min({k \in 1 .. Len(dynsym) :
                          k = Len(dynsym) \/ dynsym[k + 1].st_shndx # SHN_UNDEF})
        hashed == symndx .. Len(dynsym) - 1
        H(k) == gnuHash(dynsym[k + 1].st_name)
        In(b) == {k \in hashed : U32Mod(H(k), nbucket) = b}
    IN  [present |-> TRUE, nbucket |-> nbucket, symndx |-> symndx,
         bloom_size |-> bloom_size, shift2 |-> shift2,
         bloom |-> [w \in 0 .. bloom_size - 1 |->
                      UNION {{H(k).lo % 64, U32Shr(H(k), shift2).lo % 64} :
                                k \in {j \in hashed :
                                          U32Mod(U32Shr(H(j), 6), bloom_size) = w}}],
         bucket |-> [b \in 0 .. nbucket - 1 |-> IF In(b) = {} THEN 0 ELSE Min(In(b))],
         chain |-> [j \in 0 .. Len(dynsym) - 1 - symndx |->
                      U32(H(j + symndx).hi,
                          2 * (H(j + symndx).lo \div 2)
                            + (IF \A k \in In(U32Mod(H(j + symndx), nbucket)) :
                                     k <= j + symndx
                               THEN 1 ELSE 0))]]

\* .hash of dynsym: buckets and chains over every entry but the null one
ElfTable(dynsym, nbucket) ==
    LET In(b) == {k \in 1 .. Len(dynsym) - 1 :
                     U32Mod(elfHash(dynsym[k + 1].st_name), nbucket) = b}
        After(k) == {j \in In(U32Mod(elfHash(dynsym[k + 1].st_name), nbucket)) : j > k}
    IN  [present |-> TRUE, nbucket |-> nbucket,
         bucket |-> [b \in 0 .. nbucket - 1 |-> IF In(b) = {} THEN 0 ELSE Min(In(b))],
         chain |-> [k \in 0 .. Len(dynsym) - 1 |->
                      IF k = 0 \/ After(k) = {} THEN 0 ELSE Min(After(k))]]

NoTable == [present |-> FALSE, nbucket |-> 0]

\* .symtab: nothing when stripped, else the null entry, the static
\* functions, then the entries of .dynsym
SymtabOf(kinds, dynsym, stripped) ==
    IF stripped THEN << >>
    ELSE LET sh == InOrder({i \in DOMAIN kinds : kinds[i] = "shadowed"},
                           [i \in DOMAIN kinds |-> i])
         IN  << NullSym >> \o [k \in 1 .. Len(sh) |-> LocalSym(sh[k])] \o Tail(dynsym)


HashPath == <<"/data/local/tmp/", "h.so">>

\* GNU hash with 2 buckets, 2 bloom words and shift 6; ELF hash with 3 buckets
HashFile(kinds, has_gnu, has_elf, stripped) ==
    [dynsym |-> DynsymOf(kinds, 2),
     gnu |-> IF has_gnu THEN GnuTable(DynsymOf(kinds, 2), 2, 2, 6) ELSE NoTable,
     hash |-> IF has_elf THEN ElfTable(DynsymOf(kinds, 2), 3) ELSE NoTable,
     symtab |-> SymtabOf(kinds, DynsymOf(kinds, 2), stripped)]

NoLookups ==
    [gnu |-> [found |-> FALSE, sym |-> NullSym], elf |-> [found |-> FALSE, sym |-> NullSym],
     linear |-> [found |-> FALSE, sym |-> NullSym],
     offset |-> [found |-> FALSE, sym |-> NullSym]]

InitHash ==
    /\ \E kinds \in [1 .. NumHashNames -> SymKinds], has_gnu, has_elf, stripped \in BOOLEAN :
          fs = (HashPath :> HashFile(kinds, has_gnu, has_elf, stripped))
    /\ so = [lib_path_ |-> HashPath, image_ |-> 1, alive |-> TRUE]
    /\ lk = InitLinker
    /\ proc = InitProc
    /\ tlsm = InitTlsManager
    /\ bt = InitBacktrace
    /\ thr = [t \in {"main"} |-> [block |-> 0]]
    /\ hist = [InitHist EXCEPT !.found = NoLookups]

\* the three lookups and findSymbolOffset, for one name
HashLookup(name) ==
    /\ hist' = [hist EXCEPT
                  !.op = "findSymbolOffset", !.name = name,
                  !.found = [gnu |-> gnuHashLookup(fs[HashPath], name, gnuHash(name)),
                             elf |-> elfHashLookup(fs[HashPath], name, elfHash(name)),
                             linear |-> LinearLookup(fs[HashPath], name),
                             offset |-> findSymbolOffset(fs[HashPath], name)]]
    /\ UNCHANGED <<fs, so, lk, proc, tlsm, bt, thr>>

NextHash == \E i \in 1 .. NumHashNames : HashLookup(HashNames[i])

SpecHash == InitHash /\ [][NextHash]_vars

\* the defined .dynsym entries named name
Exports(file, name) ==
    {k \in 2 .. Len(file.dynsym) :
        file.dynsym[k].st_name = name /\ file.dynsym[k].st_shndx # SHN_UNDEF}

\* the lookup r answers with the value of the exported symbol named name
Answers(r, file, name) ==
    r.found /\ \A k \in Exports(file, name) : r.sym.st_value = file.dynsym[k].st_value

ELFCLASS64 == 2

ELFDATA2LSB == 1

EM_AARCH64 == 183

ET_EXEC == 2

ET_DYN == 3

SizeofEhdr == 64

SizeofPhdr == 56

HdrPath == <<"/data/local/tmp/", "hdr.so">>

\* e_phoff values: inside the file, at its end, and near the top of the
\* address width, where e_phoff + e_phnum * sizeof(ElfPhdr) wraps around
HdrPhoffs == {0, 64, 4040, 4041, 4096, AddrSpace - 112, AddrSpace - 56, AddrSpace - 1}

HdrPhnums == {0, 1, 2, 65535}

HdrSizes == {64, 176, 4096}

Headers ==
    [magic : BOOLEAN, ei_class : {1, ELFCLASS64}, ei_data : {ELFDATA2LSB, 2},
     e_machine : {62, EM_AARCH64}, e_type : {1, ET_EXEC, ET_DYN, 4},
     e_phoff : HdrPhoffs, e_phnum : HdrPhnums, file_size : HdrSizes]

\* validateElfHeader(header, file_size); the sum is computed in the width of
\* e_phoff
validateElfHeader(header, file_size) ==
    IF ~header.magic THEN FALSE
    ELSE IF header.ei_class # ELFCLASS64 THEN FALSE
    ELSE IF header.ei_data # ELFDATA2LSB THEN FALSE
    ELSE IF header.e_machine # EM_AARCH64 THEN FALSE
    ELSE IF header.e_type # ET_DYN /\ header.e_type # ET_EXEC THEN FALSE
    ELSE IF header.e_phoff = 0 \/ header.e_phnum = 0 THEN FALSE
    ELSE IF Wrap64(header.e_phoff + header.e_phnum * SizeofPhdr) > file_size THEN FALSE
    ELSE TRUE

\* the program header table lies inside the file
TableInside(header) ==
    header.e_phoff + header.e_phnum * SizeofPhdr <= header.file_size

\* the outcomes of ElfImage::create: null, an image, or a fault.
\* parseHeaders and parseDynamic return true whenever they return;
\* parseDynamic reads e_phnum headers at header_ + e_phoff, which is outside
\* the buffer when the table is not inside the file
CreateOutcomes(header) ==
    IF header.file_size <= SizeofEhdr THEN {"null"}
    ELSE IF ~validateElfHeader(header, header.file_size) THEN {"null"}
    ELSE IF TableInside(header) THEN {"image"}
    ELSE {"image", "fault"}

InitHdr ==
    /\ \E header \in Headers : fs = (HdrPath :> header)
    /\ so = [lib_path_ |-> HdrPath, image_ |-> 0, alive |-> TRUE]
    /\ lk = InitLinker
    /\ proc = InitProc
    /\ tlsm = InitTlsManager
    /\ bt = InitBacktrace
    /\ thr = [t \in {"main"} |-> [block |-> 0]]
    /\ hist = [InitHist EXCEPT !.found = [result |-> "none"]]

\* ElfImage::create(path, base)
HdrCreate ==
    /\ hist.op = "none"
    /\ \E r \in CreateOutcomes(fs[HdrPath]) :
          hist' = [hist EXCEPT !.op = "create", !.found = [result |-> r]]
    /\ UNCHANGED <<fs, so, lk, proc, tlsm, bt, thr>>

NextHdr == HdrCreate

SpecHdr == InitHdr /\ [][NextHdr]_vars

\* the header names a 64-bit little-endian AArch64 shared object or executable
HeaderAccepted(header) ==
    /\ header.ei_class = ELFCLASS64 /\ header.ei_data = ELFDATA2LSB
    /\ header.e_machine = EM_AARCH64 /\ header.e_type \in {ET_DYN, ET_EXEC}

\* C18: ElfImage::create returns null for every file whose header is not
\* ELF64, little-endian, AArch64 and ET_DYN or ET_EXEC, or whose program
\* header table is not wholly inside the file, for every e_phoff and e_phnum,
\* including those whose end offset wraps around.
C18_InvalidFileRejected ==
    (hist.op = "create"
        /\ (~HeaderAccepted(fs[HdrPath]) \/ ~TableInside(fs[HdrPath])))
      => hist.found.result = "null"


\* ---------------------------------------------------------------------------
\* decoding an Android packed (APS2) relocation section

MaxApsLen == 2

\* (v << shift) in the address width
ShiftLeft(v, shift) ==
    IF 2 ^ shift >= AddrSpace THEN 0
    ELSE (v % (AddrSpace \div (2 ^ shift))) * (2 ^ shift)

\* Sleb128Decoder::decodeUnsigned from position cur of bytes: [value, cur];
\* at the end of the span it returns 0
RECURSIVE DecodeUnsignedFrom(_, _, _, _)
DecodeUnsignedFrom(bytes, cur, value, shift) ==
    IF cur > Len(bytes) THEN [value |-> 0, cur |-> cur]
    ELSE IF bytes[cur] >= 128
    THEN DecodeUnsignedFrom(bytes, cur + 1,
                            Wrap64(value + ShiftLeft(bytes[cur] % 128, shift)), shift + 7)
    ELSE [value |-> Wrap64(value + ShiftLeft(bytes[cur] % 128, shift)), cur |-> cur + 1]

decodeUnsigned(bytes, cur) == DecodeUnsignedFrom(bytes, cur, 0, 0)

\* Sleb128Decoder::decode from position cur of bytes: [value, cur], with the
\* sign extension of the last byte
RECURSIVE DecodeFrom(_, _, _, _)
DecodeFrom(bytes, cur, value, shift) ==
    IF cur > Len(bytes) THEN [value |-> 0, cur |-> cur]
    ELSE IF bytes[cur] >= 128
    THEN DecodeFrom(bytes, cur + 1,
                    Wrap64(value + ShiftLeft(bytes[cur] % 128, shift)), shift + 7)
    ELSE LET v == Wrap64(value + ShiftLeft(bytes[cur] % 128, shift))
         IN  [value |-> IF 2 ^ (shift + 7) < AddrSpace /\ (bytes[cur] \div 64) % 2 = 1
                        THEN Wrap64(v + AddrSpace - 2 ^ (shift + 7))
                        ELSE v,
              cur |-> cur + 1]

decode(bytes, cur) == DecodeFrom(bytes, cur, 0, 0)

\* group_flags & bit
HasFlag(group_flags, bit) == (group_flags \div bit) % 2 = 1

GROUPED_BY_INFO == 1

GROUPED_BY_OFFSET_DELTA == 2

GROUPED_BY_ADDEND == 4

HAS_ADDEND == 8

\* one pass of the inner loop: st holds the decoder position, r_offset, the
\* current r_info and the addend; the result has the same fields, and what
\* the pass decoded as its own addend delta (0 when it decoded none)
GroupReloc(bytes, rela, group_flags, delta, st) ==
    LET off == IF HasFlag(group_flags, GROUPED_BY_OFFSET_DELTA)
               THEN [value |-> delta, cur |-> st.cur]
               ELSE decode(bytes, st.cur)
        info == IF ~HasFlag(group_flags, GROUPED_BY_INFO)
                THEN decodeUnsigned(bytes, off.cur)
                ELSE [value |-> st.r_info, cur |-> off.cur]
        add == IF rela /\ HasFlag(group_flags, HAS_ADDEND)
                    /\ ~HasFlag(group_flags, GROUPED_BY_ADDEND)
               THEN decode(bytes, info.cur)
               ELSE [value |-> 0, cur |-> info.cur]
    IN  [cur |-> add.cur, r_offset |-> Wrap64(st.r_offset + off.value),
         r_info |-> info.value, addend |-> Wrap64(st.addend + add.value),
         addend_delta |-> add.value]

\* the head of one pass of the outer loop, from decoder position cur:
\* group_size, group_flags and the fields the flags announce
GroupHeader(bytes, rela, cur) ==
    LET group_size == decodeUnsigned(bytes, cur)
        group_flags == decodeUnsigned(bytes, group_size.cur)
        delta == IF HasFlag(group_flags.value, GROUPED_BY_OFFSET_DELTA)
                 THEN decode(bytes, group_flags.cur)
                 ELSE [value |-> 0, cur |-> group_flags.cur]
        info == IF HasFlag(group_flags.value, GROUPED_BY_INFO)
                THEN decodeUnsigned(bytes, delta.cur)
                ELSE [value |-> 0, cur |-> delta.cur]
        add == IF rela /\ HasFlag(group_flags.value, HAS_ADDEND)
                    /\ HasFlag(group_flags.value, GROUPED_BY_ADDEND)
               THEN decode(bytes, info.cur)
               ELSE [value |-> 0, cur |-> info.cur]
    IN  [cur |-> add.cur, group_size |-> group_size.value,
         group_flags |-> group_flags.value, delta |-> delta.value,
         r_info |-> info.value, addend |-> add.value]

ApsPath == <<"/data/local/tmp/", "packed.so">>

\* the bytes of group headers and relocations: sizes 0 to 3 and 8, the flag
\* combinations they spell
ApsBytes == {0, 1, 2, 3, 8}

\* the section after its magic: num_relocs (one of them in two bytes), the
\* first r_offset (one of them negative, one missing), group bytes, and
\* possibly a last byte whose continuation is cut off
ApsStreams ==
    {num \o off \o groups \o tail :
        num \in {<<0>>, <<2>>, <<128, 1>>},
        off \in {<<1>>, <<127>>},
        groups \in UNION {[1 .. k -> ApsBytes] : k \in 0 .. MaxApsLen},
        tail \in {<< >>, <<128>>}}
      \cup {<< >>, <<2>>}

NoGroup ==
    [group_size |-> 0, group_flags |-> 0, delta |-> 0, r_info |-> 0, addend |-> 0,
     j |-> 0]

NoDecoder ==
    [pc |-> "start", cur |-> 1, i |-> 0, num_relocs |-> 0, r_offset |-> 0,
     group |-> NoGroup]

InitAps ==
    /\ \/ \E bytes \in ApsStreams, rela \in BOOLEAN :
             fs = (ApsPath :> [bytes |-> bytes, is_android_rela |-> rela, magic |-> TRUE])
       \/ fs = (ApsPath :> [bytes |-> <<2, 1>>, is_android_rela |-> TRUE, magic |-> FALSE])
    /\ so = [lib_path_ |-> ApsPath, image_ |-> 0, alive |-> TRUE]
    /\ lk = InitLinker
    /\ proc = InitProc
    /\ tlsm = InitTlsManager
    /\ bt = InitBacktrace
    /\ thr = [t \in {"main"} |-> [block |-> 0]]
    /\ hist = [InitHist EXCEPT !.found = NoDecoder]

\* the section is skipped when it holds nothing after the magic or the magic
\* is wrong; else num_relocs and the first r_offset are decoded
ApsStart ==
    /\ hist.found.pc = "start"
    /\ LET bytes == fs[ApsPath].bytes
           num_relocs == decodeUnsigned(bytes, 1)
           r_offset == decode(bytes, num_relocs.cur)
       IN  hist' = IF Len(bytes) = 0 \/ ~fs[ApsPath].magic
                   THEN [hist EXCEPT !.op = "decoded", !.found.pc = "done"]
                   ELSE [hist EXCEPT !.op = "decoding",
                                     !.found = [pc |-> "loop", cur |-> r_offset.cur, i |-> 0,
                                                num_relocs |-> num_relocs.value,
                                                r_offset |-> r_offset.value,
                                                group |-> NoGroup]]
    /\ UNCHANGED <<fs, so, lk, proc, tlsm, bt, thr>>

\* for (i = 0; i < num_relocs; ): the loop test holds and the pass decodes
\* its group header
ApsHeader ==
    /\ hist.found.pc = "loop"
    /\ hist.found.i < hist.found.num_relocs
    /\ LET g == GroupHeader(fs[ApsPath].bytes, fs[ApsPath].is_android_rela, hist.found.cur)
       IN  hist' = [hist EXCEPT !.found.pc = "group",
                                !.found.cur = g.cur,
                                !.found.group = [group_size |-> g.group_size,
                                                 group_flags |-> g.group_flags,
                                                 delta |-> g.delta, r_info |-> g.r_info,
                                                 addend |-> g.addend, j |-> 0]]
    /\ UNCHANGED <<fs, so, lk, proc, tlsm, bt, thr>>

\* for (j = 0; j < group_size; j++): one relocation is decoded and handed to
\* processRelocation
ApsReloc ==
    /\ hist.found.pc = "group"
    /\ hist.found.group.j < hist.found.group.group_size
    /\ LET g == hist.found.group
           st == GroupReloc(fs[ApsPath].bytes, fs[ApsPath].is_android_rela,
                            g.group_flags, g.delta,
                            [cur |-> hist.found.cur, r_offset |-> hist.found.r_offset,
                             r_info |-> g.r_info, addend |-> g.addend])
       IN  hist' = [hist EXCEPT
                      !.calls = Append(@, <<"processRelocation", st.r_info,
                                            st.r_offset, st.addend>>),
                      !.found.cur = st.cur,
                      !.found.r_offset = st.r_offset,
                      !.found.group.r_info = st.r_info,
                      !.found.group.addend = st.addend,
                      !.found.group.j = @ + 1]
    /\ UNCHANGED <<fs, so, lk, proc, tlsm, bt, thr>>

\* the end of the pass: i += group_size
ApsAdvance ==
    /\ hist.found.pc = "group"
    /\ hist.found.group.j >= hist.found.group.group_size
    /\ hist' = [hist EXCEPT !.found.pc = "loop",
                            !.found.i = Wrap64(@ + hist.found.group.group_size),
                            !.found.group = NoGroup]
    /\ UNCHANGED <<fs, so, lk, proc, tlsm, bt, thr>>

\* the loop is left when i has reached num_relocs
ApsDone ==
    /\ hist.found.pc = "loop"
    /\ hist.found.i >= hist.found.num_relocs
    /\ hist' = [hist EXCEPT !.op = "decoded", !.found.pc = "done"]
    /\ UNCHANGED <<fs, so, lk, proc, tlsm, bt, thr>>

NextAps == ApsStart \/ ApsHeader \/ ApsReloc \/ ApsAdvance \/ ApsDone

\* the thread that decodes keeps running
SpecAps == InitAps /\ [][NextAps]_vars /\ WF_vars(NextAps)

\* C20: decoding the packed relocation section terminates for every byte
\* sequence and declared num_relocs, also for a truncated stream, where the
\* decoder reads past the span and yields zero for group_size.
C20_DecodingTerminates == <>(hist.found.pc = "done")

\* ---------------------------------------------------------------------------
\* decoding well-formed APS2 RELA sections of several groups

MaxApsGroups == 2

\* the group_flags of the groups: no addends, an addend per entry, one addend
\* for the group, and an addend per entry with r_info and the offset delta
\* in the group header
ApsGroupFlags == {0, HAS_ADDEND, HAS_ADDEND + GROUPED_BY_ADDEND,
                  HAS_ADDEND + GROUPED_BY_OFFSET_DELTA + GROUPED_BY_INFO}

\* the bytes of one group of `size` relocations as the packer lays them out:
\* each offset delta is 8, each r_info 3, and each addend delta is d
ApsGroup(size, flags, d) ==
    LET head == (IF HasFlag(flags, GROUPED_BY_OFFSET_DELTA) THEN <<8>> ELSE << >>)
                \o (IF HasFlag(flags, GROUPED_BY_INFO) THEN <<3>> ELSE << >>)
                \o (IF HasFlag(flags, HAS_ADDEND) /\ HasFlag(flags, GROUPED_BY_ADDEND)
                    THEN <<d>> ELSE << >>)
        entry == (IF HasFlag(flags, GROUPED_BY_OFFSET_DELTA) THEN << >> ELSE <<8>>)
                 \o (IF HasFlag(flags, GROUPED_BY_INFO) THEN << >> ELSE <<3>>)
                 \o (IF HasFlag(flags, HAS_ADDEND) /\ ~HasFlag(flags, GROUPED_BY_ADDEND)
                     THEN <<d>> ELSE << >>)
    IN  <<size, flags>> \o head \o entry \o (IF size = 2 THEN entry ELSE << >>)

\* the groups a section may hold: one or two relocations, addend deltas of
\* 1, 2 or -1 (0x7f)
ApsGroups ==
    {[bytes |-> ApsGroup(size, flags, d), size |-> size] :
        size \in {1, 2}, flags \in ApsGroupFlags, d \in {1, 2, 127}}

RECURSIVE ApsSections(_)
ApsSections(n) ==
    IF n = 0 THEN {[bytes |-> << >>, size |-> 0]}
    ELSE {[bytes |-> s.bytes \o g.bytes, size |-> s.size + g.size] :
             s \in ApsSections(n - 1), g \in ApsGroups}

\* num_relocs, the first r_offset, then the groups
ApsRelaStreams ==
    {<<s.size, 16>> \o s.bytes : s \in UNION {ApsSections(n) : n \in 1 .. MaxApsGroups}}

InitApsRela ==
    /\ \E bytes \in ApsRelaStreams :
          fs = (ApsPath :> [bytes |-> bytes, is_android_rela |-> TRUE, magic |-> TRUE])
    /\ so = [lib_path_ |-> ApsPath, image_ |-> 0, alive |-> TRUE]
    /\ lk = InitLinker
    /\ proc = InitProc
    /\ tlsm = InitTlsManager
    /\ bt = InitBacktrace
    /\ thr = [t \in {"main"} |-> [block |-> 0]]
    /\ hist = [InitHist EXCEPT !.found = NoDecoder]

SpecApsRela == InitApsRela /\ [][NextAps]_vars

\* the addend of the relocation emitted last, 0 before the first
LastAddend(h) == IF h.calls = << >> THEN 0 ELSE h.calls[Len(h.calls)][4]

\* the delta decoded for the relocation the inner loop is about to emit: the
\* group's delta at the first relocation of a GROUPED_BY_ADDEND group (where
\* the header's decode is all the group's addend holds), 0 at its later ones,
\* and the relocation's own delta otherwise
DeltaDecoded ==
    LET g == hist.found.group
    IN  IF HasFlag(g.group_flags, GROUPED_BY_ADDEND)
        THEN (IF g.j = 0 THEN g.addend ELSE 0)
        ELSE GroupReloc(fs[ApsPath].bytes, fs[ApsPath].is_android_rela, g.group_flags,
                        g.delta, [cur |-> hist.found.cur, r_offset |-> hist.found.r_offset,
                                  r_info |-> g.r_info, addend |-> g.addend]).addend_delta

\* C21: in a RELA stream every relocation of a HAS_ADDEND group is emitted
\* with the addend of the relocation emitted before it plus the delta decoded
\* for it, the running addend being carried from one group into the next.
C21_AddendsAccumulate ==
    [][(/\ hist.found.pc = "group"
        /\ Len(hist'.calls) = Len(hist.calls) + 1
        /\ fs[ApsPath].is_android_rela
        /\ HasFlag(hist.found.group.group_flags, HAS_ADDEND))
       => LastAddend(hist') = Wrap64(LastAddend(hist) + DeltaDecoded)]_vars

\* ---------------------------------------------------------------------------
\* relocation of references to dl_iterate_phdr and dladdr

HookedNames == <<"dl_iterate_phdr", "dladdr">>

HookPath == <<"/data/local/tmp/", "hook.so">>

\* hook.so refers to both names, each through a relocation of type ty at its
\* own word, and defines the names in `own` itself
HookFile(ty, own) ==
    [FilePlug EXCEPT
        !.needed = << >>,
        !.tls = Tls(8, 16, 8),
        !.dynsym = << NullSym >> \o
                   [k \in 1 .. 2 |-> IF HookedNames[k] \in own
                                     THEN Sym(HookedNames[k], 256 + 64 * k, 1, STB_GLOBAL,
                                              STT_FUNC)
                                     ELSE Undef(HookedNames[k])],
        !.rela = [k \in 1 .. 2 |-> Rela(ty, k, 2048 + 16 * k, 0)],
        !.words = [a \in {2064, 2072, 2080, 2088} |-> 640]]

\* the library, and a host whose resident libraries export the names in
\* `host` (a statically linked host exports none)
InitHook ==
    /\ \E ty \in SymbolicTypes, own \in SUBSET Range(HookedNames) :
          fs = (HookPath :> HookFile(ty, own))
    /\ so = [lib_path_ |-> NoPath, image_ |-> 0, alive |-> TRUE]
    /\ lk = InitLinker
    /\ \E host \in SUBSET Range(HookedNames) :
          proc = [InitProc EXCEPT
                     !.host_symbols = [n \in host \cup {"hostfn"} |-> HostSymbols[n]]]
    /\ tlsm = InitTlsManager
    /\ bt = InitBacktrace
    /\ thr = [t \in {"main"} |-> [block |-> 0]]
    /\ hist = InitHist

NextHook == Load(HookPath, NoFail, 0) \/ Unload

SpecHook == InitHook /\ [][NextHook]_vars

\* the address the backtrace collaborator offers in place of name
Replacement(name) ==
    IF name = "dl_iterate_phdr" THEN CustomDlIteratePhdrAddr ELSE CustomDladdrAddr

\* C22: once a load has returned true, the target word of every symbolic
\* relocation of the image against dl_iterate_phdr or dladdr holds the address
\* of the backtrace collaborator's replacement, whether or not an image or
\* the host defines the name.
C22_HookedNamesRewritten ==
    (hist.op = "load" /\ hist.ret /\ ~hist.was_loaded)
      => \A k \in DOMAIN FileOf(lk.main_image_).rela :
            LET r == FileOf(lk.main_image_).rela[k]
                name == FileOf(lk.main_image_).dynsym[r.r_sym + 1].st_name
            IN  (r.r_type \in SymbolicTypes /\ name \in Range(HookedNames))
                  => WordAt(lk.main_image_, r.r_offset) = Replacement(name)

\* ---------------------------------------------------------------------------
\* dependency discovery over dependency graphs, one pass of the worklist loop
\* at a time

MaxNeeded == 2

DepMainPath == <<"/system/lib64/", "m.so">>
DepPathX == <<"/system/lib64/", "libx.so">>
DepPathY == <<"/vendor/lib64/", "liby.so">>

\* where a host that runs under an overlay mount has libx.so from
DepOverlayX == <<"/mnt/overlay/system/lib64/", "libx.so">>

\* the DT_NEEDED strings of the graphs: the libraries by name, libx.so also
\* by its path, the main library's own name, and a library that is nowhere
DepEntries ==
    {<<"", "libx.so">>, <<"", "liby.so">>, DepPathX, <<"", "m.so">>, <<"", "libgone.so">>}

NeededLists(n) == UNION {[1 .. k -> DepEntries] : k \in 0 .. n}

DepFile(needed) == [FileLibB EXCEPT !.needed = needed]

\* libx.so is not resident in the host, or resident under the path the
\* search finds, or resident under the overlay's path
DepHosts ==
    {<< >>, << [dlpi_name |-> DepPathX, dlpi_addr |-> RegionBase(1)] >>,
     << [dlpi_name |-> DepOverlayX, dlpi_addr |-> RegionBase(1)] >>}

NoWorklist == [pc |-> "start", to_load |-> << >>, names |-> {}, i |-> 0]

InitDeps ==
    /\ \E nm \in NeededLists(MaxNeeded), nx \in NeededLists(1), ny \in NeededLists(1) :
          fs = (DepMainPath :> DepFile(nm)) @@ (DepPathX :> DepFile(nx)) @@
               (DepOverlayX :> DepFile(nx)) @@ (DepPathY :> DepFile(ny))
    /\ so = [lib_path_ |-> NoPath, image_ |-> 0, alive |-> TRUE]
    /\ lk = InitLinker
    /\ \E host \in DepHosts : proc = [InitProc EXCEPT !.host_loaded = host]
    /\ tlsm = InitTlsManager
    /\ bt = InitBacktrace
    /\ thr = [t \in {"main"} |-> [block |-> 0]]
    /\ hist = [InitHist EXCEPT !.found = NoWorklist]

\* SoLoader::load up to the worklist loop: the main library is mapped, its
\* image made, the linker initialised and the main image's DT_NEEDED collected
DepsStart ==
    /\ hist.found.pc = "start"
    /\ LET m == LoadLibraryManually(World, DepMainPath, NoFail)
           made == ElfImageCreate(m.w, DepMainPath, m.base, NoFail)
           w == [LinkerInit(made.w, made.img) EXCEPT !.lk.main_map_size_ = m.map_size]
           first == CollectNeeded(FileOf(made.img).needed, 1, {}, << >>)
       IN  Leave(so, w, [hist EXCEPT !.op = "loadDependencies", !.arg = DepMainPath,
                                     !.found = [pc |-> "loop", to_load |-> first.out,
                                                names |-> first.names, i |-> 1]])

\* for (i = 0; i < to_load.size(); i++): one pass
DepsPass ==
    /\ hist.found.pc = "loop"
    /\ hist.found.i <= Len(hist.found.to_load)
    /\ LET r == DepPass(World, hist.found.to_load, hist.found.names, hist.found.i, NoFail)
       IN  Leave(so, r.w,
                 [hist EXCEPT !.found = [pc |-> IF r.ok THEN "loop" ELSE "failed",
                                         to_load |-> r.to_load, names |-> r.names,
                                         i |-> hist.found.i + 1]])

\* the loop is left and loadDependencies returns true
DepsDone ==
    /\ hist.found.pc = "loop"
    /\ hist.found.i > Len(hist.found.to_load)
    /\ hist' = [hist EXCEPT !.ret = TRUE, !.found.pc = "done"]
    /\ UNCHANGED <<fs, so, lk, proc, tlsm, bt, thr>>

NextDeps == DepsStart \/ DepsPass \/ DepsDone

SpecDeps == InitDeps /\ [][NextDeps]_vars

\* name is the name of a dependency the linker mapped itself
ManuallyLoaded(name) ==
    /\ FindLibraryPath(name).ok
    /\ \E k \in DOMAIN lk.deps_ :
          /\ lk.deps_[k].is_manual_load
          /\ lk.deps_[k].image.path_ = FindLibraryPath(name).path

\* the names reachable from list through the DT_NEEDED entries of manually
\* loaded dependencies, in the order of their first discovery, from entry i on
RECURSIVE Discovered(_, _)
Discovered(list, i) ==
    IF i > Len(list) THEN list
    ELSE IF ManuallyLoaded(list[i])
    THEN Discovered(CollectNeeded(fs[FindLibraryPath(list[i]).path].needed, 1,
                                  Range(list), list).out, i + 1)
    ELSE Discovered(list, i + 1)

NoRepeat(seq) == \A i, j \in DOMAIN seq : i # j => seq[i] # seq[j]

\* C24: when dependency discovery has ended, the worklist holds each name
\* once, namely the names reachable from the main image through DT_NEEDED
\* entries of the main image and of manually loaded dependencies in the order
\* of first discovery, and no library path stands twice in the dependency
\* list.
C24_DiscoveryOnce ==
    hist.found.pc = "done"
      => /\ NoRepeat(hist.found.to_load)
         /\ hist.found.to_load
               = Discovered(CollectNeeded(FileOf(lk.main_image_).needed, 1, {}, << >>).out, 1)
         /\ NoRepeat([k \in DOMAIN lk.deps_ |-> lk.deps_[k].image.path_])

\* ---------------------------------------------------------------------------
\* initialisation order and the dependencies between the libraries

\* the images the linker mapped itself and holds now: [id, path]
ManualImages ==
    (IF lk.main_image_.id # 0 /\ lk.main_map_size_ > 0
     THEN {[id |-> lk.main_image_.id, path |-> lk.main_image_.path_]} ELSE {})
    \cup {[id |-> lk.deps_[k].image.id, path |-> lk.deps_[k].image.path_] :
             k \in {j \in DOMAIN lk.deps_ : lk.deps_[j].is_manual_load}}

\* the images a destroy() released that the linker had mapped itself and that
\* were constructed and destructed once: [id, path]
DestroyedImages ==
    {[id |-> r.id, path |-> proc.regions[r.base].path] :
        r \in {x \in hist.released : x.how = "destroy" /\ x.manual /\ x.id \in Finished}}

\* the library at path pa names the library at path pb in its DT_NEEDED
NeedsPath(pa, pb) ==
    \E k \in DOMAIN fs[pa].needed :
        FindLibraryPath(fs[pa].needed[k]).ok /\ FindLibraryPath(fs[pa].needed[k]).path = pb

\* pa needs pb through at most n + 1 DT_NEEDED entries
RECURSIVE NeedsWithin(_, _, _)
NeedsWithin(pa, pb, n) ==
    \/ NeedsPath(pa, pb)
    \/ n > 0 /\ \E pc \in DOMAIN fs : NeedsPath(pa, pc) /\ NeedsWithin(pc, pb, n - 1)

\* a names b in its DT_NEEDED and b does not need a in turn
DependsOn(a, b) ==
    NeedsPath(a.path, b.path) /\ ~NeedsWithin(b.path, a.path, Cardinality(DOMAIN fs))

\* C25: of two libraries the linker mapped itself, one of which names the
\* other in its DT_NEEDED, link() runs the constructors of the needed one
\* first and destroy() runs its destructors last.
C25_DependencyOrder ==
    /\ IsLoaded(so) =>
          \A a \in ManualImages : \A b \in ManualImages \ {a} :
              DependsOn(a, b) => Pos("callConstructors", b.id) < Pos("callConstructors", a.id)
    /\ \A a \in DestroyedImages : \A b \in DestroyedImages \ {a} :
          (/\ DependsOn(a, b)
           /\ Pos("callConstructors", a.id) < Pos("callDestructors", b.id)
           /\ Pos("callConstructors", b.id) < Pos("callDestructors", a.id))
              => Pos("callDestructors", a.id) < Pos("callDestructors", b.id)

\* ---------------------------------------------------------------------------
\* TLS relocations against a variable that another image defines

TlsRefPath == <<"/data/local/tmp/", "tref.so">>
TlsDefPath == <<"/system/lib64/", "libtdef.so">>

\* tref.so: needs libtdef.so and refers to the TLS variable tv through one
\* relocation of type ty with the given addend; it defines tv itself at
\* st_value v if own, else its .dynsym entry for tv is undefined
TlsRefFile(ty, addend, v, own) ==
    [FilePlug EXCEPT
        !.needed = << <<"", "libtdef.so">> >>,
        !.tls = Tls(8, 16, 8),
        !.dynsym = << NullSym,
                      IF own THEN Sym("tv", v, 1, STB_GLOBAL, STT_TLS) ELSE Undef("tv") >>,
        !.rela = << Rela(ty, 1, 2048, addend) >>,
        !.words = (2048 :> 0) @@ (2056 :> 0)]

\* libtdef.so: defines tv at st_value v of its own TLS segment
TlsDefFile(v) ==
    [FileLibB EXCEPT
        !.tls = Tls(16, 32, 4),
        !.dynsym = << NullSym, Sym("tv", v, 1, STB_GLOBAL, STT_TLS) >>,
        !.rela = << >>,
        !.words = << >>]

InitTlsRef ==
    /\ \E ty \in {R_AARCH64_TLSDESC, R_AARCH64_TLS_DTPREL}, addend \in {0, 4},
          v \in {0, 8, 16}, own \in BOOLEAN :
          fs = (TlsRefPath :> TlsRefFile(ty, addend, v, own)) @@ (TlsDefPath :> TlsDefFile(v))
    /\ so = [lib_path_ |-> NoPath, image_ |-> 0, alive |-> TRUE]
    /\ lk = InitLinker
    /\ proc = InitProc
    /\ tlsm = InitTlsManager
    /\ bt = InitBacktrace
    /\ thr = [t \in {"main"} |-> [block |-> 0]]
    /\ hist = InitHist

NextTlsRef == (\E d \in DanglingChoices : Load(TlsRefPath, NoFail, d)) \/ Unload

SpecTlsRef == InitTlsRef /\ [][NextTlsRef]_vars

\* the image among those loaded that findSymbol resolves name to, and the
\* symbol's definition in that image's .dynsym
ResolvingImage(name) ==
    CHOOSE im \in LiveImages(lk) : im.id = FindSymbol(lk, name).image

Definition(name) == DynsymLookup(FileOf(ResolvingImage(name)), name).sym

\* C26: once a load has returned true, a TLSDESC or TLS_DTPREL relocation of
\* the main image against a variable that a dependency defines has stored
\* the st_value of that definition plus the addend as offset (in the TlsIndex
\* the descriptor points to, or in the target word), the TlsIndex naming the
\* module of the defining image.
C26_OffsetOfDefinition ==
    (hist.op = "load" /\ hist.ret /\ ~hist.was_loaded)
      => \A k \in DOMAIN FileOf(lk.main_image_).rela :
            LET r == FileOf(lk.main_image_).rela[k]
                name == FileOf(lk.main_image_).dynsym[r.r_sym + 1].st_name
                ti == WordAt(lk.main_image_, r.r_offset + 8)
            IN  (/\ r.r_type \in {R_AARCH64_TLSDESC, R_AARCH64_TLS_DTPREL}
                 /\ FindSymbol(lk, name).image \notin {0, lk.main_image_.id})
                  => IF r.r_type = R_AARCH64_TLSDESC
                     THEN /\ ti \in DOMAIN proc.tindex
                          /\ proc.tindex[ti].module = ResolvingImage(name).tls_mod_id_
                          /\ proc.tindex[ti].offset
                                = Wrap64(Definition(name).st_value + r.r_addend)
                     ELSE WordAt(lk.main_image_, r.r_offset)
                             = Wrap64(Definition(name).st_value + r.r_addend)

\* ---------------------------------------------------------------------------
\* the DT_RELR pass over RELR tables of every shape

MaxRelr == 3

RelrPath == <<"/data/local/tmp/", "relr.so">>

\* the entries of the tables: the addresses of two neighbouring words, and
\* bitmaps that are empty, name the first word, the first two, or the
\* eleventh word alone
RelrEntries == {2048, 2056, 1, 3, 7, 2049}

RelrTables == UNION {[1 .. k -> RelrEntries] : k \in 0 .. MaxRelr}

\* relr.so: one page of words, each holding its own offset, and the table
RelrFile(relr) ==
    [FilePlug EXCEPT
        !.needed = << >>,
        !.dynsym = << NullSym >>,
        !.rela = << >>,
        !.relr = relr,
        !.words = [a \in {8 * k : k \in 0 .. PageSize \div 8 - 1} |-> a]]

InitRelr ==
    /\ \E relr \in RelrTables : fs = (RelrPath :> RelrFile(relr))
    /\ so = [lib_path_ |-> NoPath, image_ |-> 0, alive |-> TRUE]
    /\ lk = InitLinker
    /\ proc = InitProc
    /\ tlsm = InitTlsManager
    /\ bt = InitBacktrace
    /\ thr = [t \in {"main"} |-> [block |-> 0]]
    /\ hist = InitHist

NextRelr == Load(RelrPath, NoFail, 0) \/ Unload

SpecRelr == InitRelr /\ [][NextRelr]_vars

\* bit n of x
RECURSIVE BitAt(_, _)
BitAt(x, n) == IF n = 0 THEN x % 2 = 1 ELSE BitAt(x \div 2, n - 1)

\* the reference decoder's base at entry i: 8 bytes past the last address
\* entry before it, and 63 words further for every bitmap entry since
RECURSIVE RefBase(_, _)
RefBase(relr, i) ==
    IF i = 1 THEN 0
    ELSE IF relr[i - 1] % 2 = 0 THEN relr[i - 1] + 8
    ELSE RefBase(relr, i - 1) + 63 * 8

\* entry i of the table designates the word at offset off
Designates(relr, i, off) ==
    IF relr[i] % 2 = 0 THEN off = relr[i]
    ELSE LET d == off - RefBase(relr, i)
         IN  d >= 0 /\ d % 8 = 0 /\ d \div 8 \in 0 .. 62 /\ BitAt(relr[i], d \div 8 + 1)

\* how many entries of the table designate the word at offset off
Designations(relr, off) == Cardinality({i \in DOMAIN relr : Designates(relr, i, off)})

MaxPhdr == 2

ProtPath == <<"/data/local/tmp/", "prot.so">>

\* one Elf64_Phdr; p_flags as the set of its PF_ bits
Phdr(type, offset, vaddr, memsz, flags) ==
    [p_type |-> type, p_offset |-> offset, p_vaddr |-> vaddr, p_filesz |-> memsz,
     p_memsz |-> memsz, p_flags |-> flags]

\* <<p_offset, p_vaddr>> of the PT_LOAD entries, congruent modulo the page size
PhdrLayouts ==
    {<<0, 0>>, <<0, 4096>>, <<2048, 2048>>, <<4096, 4096>>, <<4096, 8192>>, <<2048, 6144>>}

PhdrFlags == {{}, {"PF_R"}, {"PF_R", "PF_X"}, {"PF_R", "PF_W"}, {"PF_R", "PF_W", "PF_X"}}

PhdrEntries ==
    {Phdr("PT_LOAD", l[1], l[2], m, f) : l \in PhdrLayouts, m \in {2048, 4096}, f \in PhdrFlags}
      \cup {Phdr("PT_NOTE", 512, 512, 64, {"PF_R"})}

\* the program header tables: PT_LOAD entries in ascending order of p_vaddr
\* and of p_offset
PhdrTables ==
    {t \in UNION {[1 .. k -> PhdrEntries] : k \in 1 .. MaxPhdr} :
        \A i, j \in DOMAIN t :
            (i < j /\ t[i].p_type = "PT_LOAD" /\ t[j].p_type = "PT_LOAD")
               => t[i].p_vaddr <= t[j].p_vaddr /\ t[i].p_offset < t[j].p_offset}

PageStart(addr) == addr - (addr % PageSize)

PageEnd(addr) == PageStart(Wrap64(addr + PageSize - 1))

\* the page addresses from lo up to hi
Pages(lo, hi) ==
    IF hi <= lo THEN {} ELSE {lo + PageSize * k : k \in 0 .. (hi - lo) \div PageSize - 1}

Loads(phdr) == {i \in DOMAIN phdr : phdr[i].p_type = "PT_LOAD"}

\* PF_ bits to PROT_ bits
ProtOf(p_flags) ==
    (IF "PF_R" \in p_flags THEN {"PROT_READ"} ELSE {})
      \cup (IF "PF_W" \in p_flags THEN {"PROT_WRITE"} ELSE {})
      \cup (IF "PF_X" \in p_flags THEN {"PROT_EXEC"} ELSE {})

\* getLoadSize: [min_vaddr, size]; lo starts at UINTPTR_MAX, hi at 0
LoadSize(phdr) ==
    LET lo == Min({AddrSpace - 1} \cup {phdr[i].p_vaddr : i \in Loads(phdr)})
        hi == Max({0} \cup {phdr[i].p_vaddr + phdr[i].p_memsz : i \in Loads(phdr)})
    IN  [min_vaddr |-> PageStart(lo),
         size |-> Wrap64(PageEnd(hi) - PageStart(lo) + AddrSpace)]

\* mmap(MAP_FIXED) over pages with protection prot
MapFixed(prots, pages, prot) ==
    [p \in DOMAIN prots \cup pages |-> IF p \in pages THEN prot ELSE prots[p]]

\* mprotect(addr, len, prot): page after page until the range ends or a page
\* is not mapped
RECURSIVE Mprotect(_, _, _, _)
Mprotect(prots, addr, len, prot) ==
    IF len <= 0 \/ addr \notin DOMAIN prots THEN prots
    ELSE Mprotect([prots EXCEPT ![addr] = prot], Wrap64(addr + PageSize),
                  len - PageSize, prot)

\* loadSegment: the file pages and the BSS pages mapped with the segment's
\* protection, PROT_EXEC of a writable segment added afterwards
LoadSegment(prots, ph, bias) ==
    LET seg_start == Wrap64(ph.p_vaddr + bias)
        seg_end == Wrap64(seg_start + ph.p_memsz)
        pg_start == PageStart(seg_start)
        pg_end == PageEnd(seg_end)
        file_len == PageEnd(ph.p_offset + ph.p_filesz) - PageStart(ph.p_offset)
        req == ProtOf(ph.p_flags)
        needs_mprotect == "PROT_WRITE" \in req /\ "PROT_EXEC" \in req
        prot == IF needs_mprotect THEN req \ {"PROT_EXEC"} ELSE req
        filed == MapFixed(prots, Pages(pg_start, pg_start + file_len), prot)
        bss == MapFixed(filed, Pages(pg_start + file_len, pg_end), prot)
    IN  IF needs_mprotect
        THEN Mprotect(bss, pg_start, pg_end - pg_start, prot \cup {"PROT_EXEC"})
        ELSE bss

RECURSIVE LoadSegments(_, _, _, _)
LoadSegments(prots, phdr, i, bias) ==
    IF i > Len(phdr) THEN prots
    ELSE LoadSegments(IF phdr[i].p_type = "PT_LOAD"
                      THEN LoadSegment(prots, phdr[i], bias) ELSE prots,
                      phdr, i + 1, bias)

\* ElfImage::parseDynamic: bias_ is the p_vaddr of a PT_LOAD at file offset
\* 0 (the last such), and if that left it 0, p_vaddr - p_offset of the first
\* PT_LOAD
ParseBias(phdr) ==
    LET zero == {i \in Loads(phdr) : phdr[i].p_offset = 0}
        first == IF zero = {} THEN 0 ELSE phdr[Max(zero)].p_vaddr
    IN  IF first # 0 \/ Loads(phdr) = {} THEN first
        ELSE Wrap64(phdr[Min(Loads(phdr))].p_vaddr - phdr[Min(Loads(phdr))].p_offset
                    + AddrSpace)

\* the run-time address the image computes for vaddr v
RuntimeAddr(base_, bias_, v) == Wrap64(base_ + v - bias_ + AddrSpace)

\* the makeWritable lambda of Linker::link, from entry i on
RECURSIVE MakeWritable(_, _, _, _, _)
MakeWritable(prots, phdr, i, base_, bias_) ==
    IF i > Len(phdr) THEN prots
    ELSE IF phdr[i].p_type # "PT_LOAD" \/ "PF_W" \in phdr[i].p_flags
    THEN MakeWritable(prots, phdr, i + 1, base_, bias_)
    ELSE LET start == PageStart(RuntimeAddr(base_, bias_, phdr[i].p_vaddr))
             len == PageEnd(phdr[i].p_vaddr + phdr[i].p_memsz)
                      - PageStart(phdr[i].p_vaddr)
             prot == {"PROT_READ", "PROT_WRITE"}
                       \cup (IF "PF_X" \in phdr[i].p_flags THEN {"PROT_EXEC"} ELSE {})
         IN  MakeWritable(Mprotect(prots, start, len, prot), phdr, i + 1, base_, bias_)

\* Linker::restoreProtections
RestoreProtections(prots, phdr, base_, bias_) ==
    LET seg_start(i) == RuntimeAddr(base_, bias_, phdr[i].p_vaddr)
        seg_end(i) == Wrap64(seg_start(i) + phdr[i].p_memsz)
        min_addr == Min({AddrSpace - 1} \cup {seg_start(i) : i \in Loads(phdr)})
        max_addr == Max({0} \cup {seg_end(i) : i \in Loads(phdr)})
        start_page == PageStart(min_addr)
        end_page == PageEnd(max_addr)
        page_prots(p) ==
            UNION {ProtOf(phdr[i].p_flags) :
                      i \in {k \in Loads(phdr) :
                                PageStart(seg_start(k)) <= p /\ p < PageEnd(seg_end(k))}}
    IN  IF min_addr >= max_addr \/ Pages(start_page, end_page) = {} THEN prots
        ELSE [p \in DOMAIN prots |->
                 IF p \in Pages(start_page, end_page) /\ page_prots(p) # {}
                 THEN page_prots(p) ELSE prots[p]]

NoMapping ==
    [pc |-> "start", base |-> 0, map_size |-> 0, min_vaddr |-> 0, bias_ |-> 0,
     prots |-> << >>, phase3 |-> {}]

InitProt ==
    /\ \E t \in PhdrTables : fs = (ProtPath :> [phdr |-> t])
    /\ so = [lib_path_ |-> NoPath, image_ |-> 0, alive |-> TRUE]
    /\ lk = InitLinker
    /\ proc = InitProc
    /\ tlsm = InitTlsManager
    /\ bt = InitBacktrace
    /\ thr = [t \in {"main"} |-> [block |-> 0]]
    /\ hist = [InitHist EXCEPT !.found = NoMapping]

\* Linker::loadLibraryManually: the reservation, PROT_NONE, and the segments
\* mapped into it
ProtMap ==
    /\ hist.found.pc = "start"
    /\ LET phdr == fs[ProtPath].phdr
           ls == LoadSize(phdr)
           base == RegionBase(1)
           reserved == [p \in Pages(base, base + ls.size) |-> {}]
           bias == Wrap64(base - ls.min_vaddr + AddrSpace)
       IN  hist' = [hist EXCEPT
                       !.op = "loadLibraryManually", !.arg = ProtPath,
                       !.found = IF ls.size = 0 THEN [NoMapping EXCEPT !.pc = "failed"]
                                 ELSE [NoMapping EXCEPT
                                          !.pc = "mapped", !.base = base,
                                          !.map_size = ls.size,
                                          !.min_vaddr = ls.min_vaddr,
                                          !.prots = LoadSegments(reserved, phdr, 1, bias)]]
    /\ UNCHANGED <<fs, so, lk, proc, tlsm, bt, thr>>

\* ElfImage::create(path, base): parseDynamic sets the bias
ProtCreate ==
    /\ hist.found.pc = "mapped"
    /\ hist' = [hist EXCEPT !.op = "create",
                            !.found.pc = "created",
                            !.found.bias_ = ParseBias(fs[ProtPath].phdr)]
    /\ UNCHANGED <<fs, so, lk, proc, tlsm, bt, thr>>

\* Linker::link, phase 3
ProtWritable ==
    /\ hist.found.pc = "created"
    /\ LET after == MakeWritable(hist.found.prots, fs[ProtPath].phdr, 1,
                                 hist.found.base, hist.found.bias_)
       IN  hist' = [hist EXCEPT
                       !.op = "link",
                       !.found.pc = "writable",
                       !.found.prots = after,
                       !.found.phase3 = {p \in DOMAIN after : after[p] # hist.found.prots[p]}]
    /\ UNCHANGED <<fs, so, lk, proc, tlsm, bt, thr>>

\* Linker::link, phase 5, and its return
ProtRestore ==
    /\ hist.found.pc = "writable"
    /\ hist' = [hist EXCEPT
                   !.ret = TRUE,
                   !.found.pc = "linked",
                   !.found.prots = RestoreProtections(hist.found.prots, fs[ProtPath].phdr,
                                                      hist.found.base, hist.found.bias_)]
    /\ UNCHANGED <<fs, so, lk, proc, tlsm, bt, thr>>

NextProt == ProtMap \/ ProtCreate \/ ProtWritable \/ ProtRestore

SpecProt == InitProt /\ [][NextProt]_vars

\* the PT_LOAD segments the mapper placed over page p
Covering(p) ==
    LET phdr == fs[ProtPath].phdr
        at(i) == Wrap64(hist.found.base + phdr[i].p_vaddr - hist.found.min_vaddr + AddrSpace)
    IN  {i \in Loads(phdr) :
            PageStart(at(i)) <= p /\ p < PageEnd(Wrap64(at(i) + phdr[i].p_memsz))}

\* the OR of the protections the segments covering page p request
Requested(p) == UNION {ProtOf(fs[ProtPath].phdr[i].p_flags) : i \in Covering(p)}

\* C28: when link() has returned true, every page of the image has the
\* protection that is the OR of the flags requested by the PT_LOAD segments
\* covering it, and a page that phase 3 made writable is writable only if
\* one of those segments requests write permission.
C28_PageProtections ==
    hist.found.pc = "linked"
      => \A p \in DOMAIN hist.found.prots :
            /\ hist.found.prots[p] = Requested(p)
            /\ (p \in hist.found.phase3 /\ "PROT_WRITE" \in hist.found.prots[p])
                  => "PROT_WRITE" \in Requested(p)

\* C29: once the image of an accepted file is created, the bias parseDynamic
\* computed equals the page-aligned smallest PT_LOAD p_vaddr the mapper
\* subtracted from the base, so that the image's run-time address of every
\* vaddr is the address the mapper placed it at.
C29_BiasIsMinVaddr ==
    hist.found.pc \in {"created", "writable", "linked"}
      => hist.found.bias_ = hist.found.min_vaddr

\* ---------------------------------------------------------------------------
\* backtrace registration when other loaders of the process hold registry slots

\* how many of the registry's slots images of other loaders hold
OccupiedSlots == {MAX_CUSTOM_LIBS - 2, MAX_CUSTOM_LIBS - 1, MAX_CUSTOM_LIBS}

\* the image another loader registered in slot i
ForeignImage(i) == 1000 + i

InitBt ==
    /\ fs = FileSystem
    /\ so = [lib_path_ |-> NoPath, image_ |-> 0, alive |-> TRUE]
    /\ lk = InitLinker
    /\ proc = InitProc
    /\ tlsm = InitTlsManager
    /\ \E k \in OccupiedSlots :
          bt = [InitBacktrace EXCEPT
                   !.libs_ = [i \in 0 .. MAX_CUSTOM_LIBS - 1 |->
                                 IF i < k
                                 THEN [in_use |-> TRUE, image |-> ForeignImage(i),
                                       eh_frame_registered |-> 0]
                                 ELSE NoLib]]
    /\ thr = [t \in {"main"} |-> [block |-> 0]]
    /\ hist = InitHist

NextBt ==
    \/ \E p \in LoadPaths : \E f \in FailChoices(p), d \in DanglingChoices : Load(p, f, d)
    \/ Unload
    \/ AbandonLib
    \/ Destruct

SpecBt == InitBt /\ [][NextBt]_vars

\* C30: when unload() or abandon() has torn a loaded library down, however
\* many registry slots other loaders hold, no eh_frame that link() handed to
\* the registrar is still registered, and no registry slot refers to an image
\* of this linker.
C30_RegistrationBalanced ==
    (hist.op \in {"unload", "abandon"} /\ hist.ret)
      => /\ bt.frames = {}
         /\ \A i \in DOMAIN bt.libs_ : ~(bt.libs_[i].in_use /\ bt.libs_[i].image \in ImageIds)


====
